---- MODULE Spec2Model ----
(***************************************************************************)
(* A model of the offline document-review pipeline: the normalizer         *)
(* (scripts/normalize_and_partition.py), the chunking stage                *)
(* (scripts/chunk_and_index.py), the retrieval stage                       *)
(* (scripts/retrieve_candidates.py), the judge (scripts/judge.py) and the  *)
(* worker that receives the jobs (worker/main.py, worker/api/index.py).    *)
(*                                                                         *)
(* A character is its code point, a natural number.  The texts of the      *)
(* chunking stage are thousands of characters long and are written as the  *)
(* sequence of their runs: a run [lo |-> a, hi |-> b] is the characters    *)
(* a, a + 1, ..., b, no run is empty and no run continues the one before   *)
(* it, so that a text has one representation and two texts are equal      *)
(* exactly when their representations are.  len, + and slicing are TLen,   *)
(* TCat and TSub.  The short texts and the patterns of the retrieval stage *)
(* are written character by character, as sequences of code points.       *)
(* The strings of the normalizer and of the judge are also written         *)
(* character by character.                                                 *)
(* A JSON object is a record; an optional key that is absent is absent     *)
(* from the record's DOMAIN.  A Python dict, which keeps insertion order,  *)
(* is a sequence of entries.                                               *)
(* An element_id is a string in the source; here it is a number n that     *)
(* stands for a string whose lexicographic order is the order of n.        *)
(***************************************************************************)
EXTENDS Integers, Sequences, FiniteSets, TLC

VARIABLES
    \* ---- chunking stage (chunk_and_index.main)
    pc,             \* position of main: "start", "grouped", "parents", "children", "done"
    elements,       \* content of the --elements file
    grouped,        \* result of group_elements_by_doc
    parents,        \* result of build_parent_chunks
    children,       \* result of build_child_chunks
    child_output,   \* content of the --child-output file ("absent" before it is written)
    entropy,        \* the randomness uuid.uuid4 draws from in this run
    reran,          \* TRUE once the stage has been run a second time
    prev_elements,  \* the elements file of the previous run
    prev_grouped,   \* the grouping of the previous run
    prev_output,    \* the --child-output file the previous run wrote
    \* ---- retrieval stage (retrieve_candidates.main)
    r_pc,           \* position of main: "start", "chunks", "requirements",
                    \* "compiled", "selected", "exit"; "idle" when not run
    child_file,     \* the --child-chunks file: [ok, data]
    req_file,       \* the --requirements file: [ok, data]
    top_k,          \* args.top_k
    output_file,    \* the --output file: [exists, data]
    output_before,  \* the --output file as it was when the run started
    child_chunks,   \* what load_json returned for --child-chunks
    requirements,   \* what load_json returned for --requirements
    clause_patterns,\* result of compile_clause_patterns
    candidates,     \* result of offline_candidate_selection
    exit_code,      \* exit status of the process, -1 while it runs
    \* ---- normalizer (normalize_and_partition.normalize_text)
    n_pc,           \* "start" before the call, "done" after it; "idle" when not run
    n_text,         \* the argument: [none |-> TRUE] for None, else [none |-> FALSE]
                    \* and its characters
    n_result,       \* the string returned
    \* ---- worker (worker/main.py, worker/api/index.py)
    w_pc,           \* "ready" while the application serves; "idle" when not run
    w_app,          \* the application deployed: "main" or "index"
    w_token,        \* WORKER_TOKEN of the environment
    w_gh,           \* GH_OWNER, GH_REPO and GH_DISPATCH_TOKEN are all set
    w_files,        \* the files under DATA_ROOT
    w_jobs,         \* the number of job identifiers po_check has drawn
    w_dispatches,   \* the repository_dispatch requests sent, with their outcomes
    w_req,          \* the last request handled
    w_resp,         \* the response to it
    w_count,        \* the number of requests answered
    w_pending,      \* the po_check calls suspended at an await
    \* ---- judge (judge.main)
    j_pc,           \* position of main: "start", "judged", "done"; "idle" when not run
    j_results,      \* content of the --results file
    j_judged,       \* result of judge_clauses
    j_output,       \* content of the --output file ("absent" before it is written)
    \* ---- classifier inference (classifier_infer.main)
    k_pc,           \* position of main: "start", "filled", "filtered", "done"; "idle" when not run
    k_probs,        \* clf.predict_proba(X): per chunk, the probability of each clause
    k_high,         \* args.threshold_high
    k_low,          \* args.threshold_low
    k_predictions,  \* predictions: clause name -> list of predictions
    k_final,        \* final: clause name -> selected predictions
    k_output        \* content of the --output file ("absent" before it is written)

cvars == <<pc, elements, grouped, parents, children, child_output, entropy,
           reran, prev_elements, prev_grouped, prev_output>>

rvars == <<r_pc, child_file, req_file, top_k, output_file, output_before,
           child_chunks, requirements, clause_patterns, candidates, exit_code>>

nvars == <<n_pc, n_text, n_result>>

(* The variables of the stages other than chunking and retrieval. *)
wvars == <<w_pc, w_app, w_token, w_gh, w_files, w_jobs, w_dispatches, w_req, w_resp, w_count,
           w_pending>>

jvars == <<j_pc, j_results, j_judged, j_output>>

kvars == <<k_pc, k_probs, k_high, k_low, k_predictions, k_final, k_output>>

beyond == <<nvars, wvars, jvars, kvars>>

vars == <<cvars, rvars, beyond>>

(* The stages other than chunking and retrieval are not run. *)
NormalizerIdle ==
    /\ n_pc = "idle"
    /\ n_text = [none |-> TRUE, chars |-> <<>>]
    /\ n_result = <<>>

WorkerIdle ==
    /\ w_pc = "idle"
    /\ w_app = "none"
    /\ w_token = ""
    /\ w_gh = FALSE
    /\ w_files = {}
    /\ w_jobs = 0
    /\ w_dispatches = <<>>
    /\ w_req = [app |-> "none", route |-> "none", job |-> 0, name |-> "",
                token |-> [present |-> FALSE, value |-> ""],
                body |-> [present |-> FALSE, data |-> ""]]
    /\ w_resp = [code |-> 0, body |-> ""]
    /\ w_count = 0
    /\ w_pending = {}

JudgeIdle ==
    /\ j_pc = "idle"
    /\ j_results = <<>>
    /\ j_judged = <<>>
    /\ j_output = "absent"

ClassifierIdle ==
    /\ k_pc = "idle"
    /\ k_probs = <<>>
    /\ k_high = 0
    /\ k_low = 0
    /\ k_predictions = <<>>
    /\ k_final = <<>>
    /\ k_output = "absent"

BeyondIdle == NormalizerIdle /\ WorkerIdle /\ JudgeIdle /\ ClassifierIdle

-----------------------------------------------------------------------------
(* Bounds of the model. *)

MaxElems == 2
MaxChunks == 2
MaxText == 4
MaxRequests == 3
MaxClauses == 2

(* Program constants. *)

PARENT_CHUNK_SIZE == 1900
CHILD_CHUNK_SIZE == 600
CHILD_CHUNK_OVERLAP_PCT == 15

(* The newline character "\n", and the text "\n". *)
NL == 10
Newline == <<[lo |-> NL, hi |-> NL]>>

-----------------------------------------------------------------------------
(* Inputs. *)

Docs == {"a", "b"}
Pages == {1, 2}

(* Lengths of the element texts the model draws. *)
TextLens == {0, 40, 510, 550, 600, 950, 1000, 2000}

(* The text of n characters of element id, the characters 10000 * id + 1   *)
(* to 10000 * id + n: every character differs from every other character   *)
(* of every element, and from the newline.                                 *)
Text(id, n) == IF n = 0 THEN <<>> ELSE <<[lo |-> 10000 * id + 1, hi |-> 10000 * id + n]>>

(* The outcomes of the random source behind uuid.uuid4 in one run. *)
Entropy == {1, 2}

(* The k-th identifier uuid.uuid4 returns in a run drawing from e: distinct *)
(* draws of one run give distinct identifiers, and two runs give the same   *)
(* identifiers only if they draw from the same e.                           *)
uuid4(e, k) == <<e, k>>

-----------------------------------------------------------------------------
(* Helpers. *)

Min(a, b) == IF a < b THEN a ELSE b

(* el.get('doc', 'unknown'), el.get('page', 0) *)
ElDoc(el) == IF "doc" \in DOMAIN el THEN el.doc ELSE "unknown"
ElPage(el) == IF "page" \in DOMAIN el THEN el.page ELSE 0

(* el.get('element_id'): None, written 0, when the key is absent; the       *)
(* identifiers that are present are 1, 2, ...                               *)
ElId(el) == IF "element_id" \in DOMAIN el THEN el.element_id ELSE 0

(* el.get('text', '') *)
ElText(el) == IF "text" \in DOMAIN el THEN el.text ELSE <<>>

(* len(text) *)
RECURSIVE TLen(_)
TLen(text) ==
    IF text = <<>> THEN 0
    ELSE (text[1].hi - text[1].lo + 1) + TLen(Tail(text))

(* a + b *)
TCat(a, b) ==
    IF a = <<>> THEN b
    ELSE IF b = <<>> THEN a
    ELSE IF a[Len(a)].hi + 1 = b[1].lo
         THEN SubSeq(a, 1, Len(a) - 1) \o <<[lo |-> a[Len(a)].lo, hi |-> b[1].hi]>> \o Tail(b)
         ELSE a \o b

(* text[from:to] for 0 <= from and 0 <= to: the characters at the          *)
(* positions from, ..., to - 1 that the text has, positions counted from 0 *)
RECURSIVE TSub(_, _, _)
TSub(text, from, to) ==
    IF text = <<>> \/ from >= to THEN <<>>
    ELSE LET n == text[1].hi - text[1].lo + 1
         IN  IF from >= n THEN TSub(Tail(text), from - n, to - n)
             ELSE <<[lo |-> text[1].lo + from, hi |-> text[1].lo + Min(to, n) - 1]>>
                  \o TSub(Tail(text), 0, to - n)

(* "\n".join(buffer) *)
RECURSIVE Join(_)
Join(buffer) ==
    IF buffer = <<>> THEN <<>>
    ELSE IF Len(buffer) = 1 THEN buffer[1]
    ELSE TCat(buffer[1], TCat(Newline, Join(Tail(buffer))))

-----------------------------------------------------------------------------
(* group_elements_by_doc *)

(* The sort key (e.get('page', 0), e.get('element_id')) compared as tuples: *)
(* the pages decide unless they are equal, and then the identifiers do;    *)
(* None is equal to None.                                                  *)
KeyLess(a, b) ==
    \/ ElPage(a) < ElPage(b)
    \/ ElPage(a) = ElPage(b) /\ ElId(a) < ElId(b)

(* Comparing the keys of a and b raises TypeError: the pages are equal and *)
(* the comparison goes on to the identifiers, one a string and one None.   *)
KeyRaises(a, b) ==
    /\ ElPage(a) = ElPage(b)
    /\ ("element_id" \in DOMAIN a) # ("element_id" \in DOMAIN b)

(* els.sort(...) raises: a sort compares every two elements that end up    *)
(* next to each other, and all elements of one page whose identifiers      *)
(* cannot be compared end up next to each other.                           *)
SortRaises(els) ==
    \E i, j \in 1..Len(els) : KeyRaises(els[i], els[j])

RECURSIVE InsertSorted(_, _)
InsertSorted(sorted, e) ==
    IF sorted = <<>> THEN <<e>>
    ELSE IF KeyLess(e, Head(sorted)) THEN <<e>> \o sorted
    ELSE <<Head(sorted)>> \o InsertSorted(Tail(sorted), e)

(* Mutant: the per-group sort is left out. *)
SortEls_unsorted(els) == els

(* list.sort(key=...): a stable sort, equal keys keep their order. *)
RECURSIVE SortEls(_)
SortEls(els) ==
    IF els = <<>> THEN <<>>
    ELSE InsertSorted(SortEls(SubSeq(els, 1, Len(els) - 1)), els[Len(els)])

(* The keys of the dict in insertion order: each doc at its first element. *)
RECURSIVE DocOrder(_)
DocOrder(els) ==
    IF els = <<>> THEN <<>>
    ELSE LET rest == DocOrder(SubSeq(els, 1, Len(els) - 1))
             d == ElDoc(els[Len(els)])
         IN  IF \E i \in 1..Len(rest) : rest[i] = d THEN rest ELSE Append(rest, d)

DocElements(els, d) == SelectSeq(els, LAMBDA e : ElDoc(e) = d)

group_elements_by_doc(els) ==
    LET order == DocOrder(els)
    IN  [i \in 1..Len(order) |->
            [doc |-> order[i], els |-> SortEls(DocElements(els, order[i]))]]

(* group_elements_by_doc raises: the sort of one of the groups does. *)
GroupRaises(els) ==
    \E d \in {ElDoc(els[i]) : i \in 1..Len(els)} : SortRaises(DocElements(els, d))

-----------------------------------------------------------------------------
(* build_parent_chunks *)

(* Mutant: the chunk reports the page of its last element. *)
FlushParent_lastpage(e, drawn, doc, buffer, meta_list) ==
    [parent_id   |-> uuid4(e, drawn + 1),
     doc         |-> doc,
     page        |-> IF meta_list # <<>> THEN meta_list[Len(meta_list)].page ELSE 0,
     element_ids |-> [i \in 1..Len(meta_list) |-> meta_list[i].element_id],
     text        |-> Join(buffer)]

(* The parent chunk appended at a flush; drawn is the number of uuid4 calls *)
(* made before it.                                                          *)
FlushParent(e, drawn, doc, buffer, meta_list) ==
    [parent_id   |-> uuid4(e, drawn + 1),
     doc         |-> doc,
     page        |-> IF meta_list # <<>> THEN meta_list[1].page ELSE 0,
     element_ids |-> [i \in 1..Len(meta_list) |-> meta_list[i].element_id],
     text        |-> Join(buffer)]

(* Mutant: the chunk is closed as soon as the limit is reached. *)
MustFlush_reached(buffer, current_length, text) ==
    buffer # <<>> /\ current_length + TLen(text) >= PARENT_CHUNK_SIZE

(* "if buffer and current_length + len(text) > PARENT_CHUNK_SIZE" *)
MustFlush(buffer, current_length, text) ==
    buffer # <<>> /\ current_length + TLen(text) > PARENT_CHUNK_SIZE

(* The loop over one document's elements, from element i on. *)
RECURSIVE ParentLoop(_, _, _, _, _, _, _, _)
ParentLoop(e, doc, els, i, buffer, meta_list, current_length, acc) ==
    IF i > Len(els)
    THEN IF buffer # <<>>
         THEN Append(acc, FlushParent(e, Len(acc), doc, buffer, meta_list))
         ELSE acc
    ELSE LET el == els[i]
             text == ElText(el)
             m == [page |-> ElPage(el), element_id |-> ElId(el)]
         IN  IF MustFlush(buffer, current_length, text)
             THEN ParentLoop(e, doc, els, i + 1, <<text>>, <<m>>, TLen(text),
                             Append(acc, FlushParent(e, Len(acc), doc, buffer, meta_list)))
             ELSE ParentLoop(e, doc, els, i + 1, Append(buffer, text),
                             Append(meta_list, m), current_length + TLen(text), acc)

RECURSIVE ParentsFrom(_, _, _, _)
ParentsFrom(e, grp, g, acc) ==
    IF g > Len(grp) THEN acc
    ELSE ParentsFrom(e, grp, g + 1,
                     ParentLoop(e, grp[g].doc, grp[g].els, 1, <<>>, <<>>, 0, acc))

(* Mutant: the documents are visited in an order that depends on the run   *)
(* (the iteration order of a hashed set of names).                        *)
build_parent_chunks_hashed(grp, e) ==
    IF e % 2 = 0
    THEN ParentsFrom(e, [i \in 1..Len(grp) |-> grp[Len(grp) + 1 - i]], 1, <<>>)
    ELSE ParentsFrom(e, grp, 1, <<>>)

build_parent_chunks(grp, e) == ParentsFrom(e, grp, 1, <<>>)

-----------------------------------------------------------------------------
(* build_child_chunks *)

(* Mutant: the step is the overlap itself. *)
ChildStep_overlap == (CHILD_CHUNK_SIZE * CHILD_CHUNK_OVERLAP_PCT) \div 100

(* Mutant: the window advances by its full width. *)
ChildStep_full == CHILD_CHUNK_SIZE

(* step = int(CHILD_CHUNK_SIZE * (1 - CHILD_CHUNK_OVERLAP)) *)
ChildStep == (CHILD_CHUNK_SIZE * (100 - CHILD_CHUNK_OVERLAP_PCT)) \div 100

(* Mutant: the slice ends one character early. *)
Slice_short(text, pos) == TSub(text, pos, pos + CHILD_CHUNK_SIZE - 1)

(* Mutant: the slice runs to the end of the text. *)
Slice_toend(text, pos) == TSub(text, pos, TLen(text))

(* text[pos:pos + CHILD_CHUNK_SIZE], pos counted from 0 *)
Slice(text, pos) == TSub(text, pos, pos + CHILD_CHUNK_SIZE)

(* Mutant: the loop runs while pos <= length. *)
RECURSIVE ChildLoop_inclusive(_, _, _, _, _)
ChildLoop_inclusive(e, drawn0, parent, pos, acc) ==
    IF pos <= TLen(parent.text)
    THEN ChildLoop_inclusive(e, drawn0, parent, pos + ChildStep,
                   Append(acc, [child_id  |-> uuid4(e, drawn0 + Len(acc) + 1),
                                parent_id |-> parent.parent_id,
                                doc       |-> parent.doc,
                                text      |-> Slice(parent.text, pos)]))
    ELSE acc

(* The while loop over one parent, from position pos on; drawn0 is the      *)
(* number of uuid4 calls build_parent_chunks made.                          *)
RECURSIVE ChildLoop(_, _, _, _, _)
ChildLoop(e, drawn0, parent, pos, acc) ==
    IF pos < TLen(parent.text)
    THEN ChildLoop(e, drawn0, parent, pos + ChildStep,
                   Append(acc, [child_id  |-> uuid4(e, drawn0 + Len(acc) + 1),
                                parent_id |-> parent.parent_id,
                                doc       |-> parent.doc,
                                text      |-> Slice(parent.text, pos)]))
    ELSE acc

(* Mutant: the identifiers drawn for one parent's chunks are drawn again   *)
(* for the next parent's.                                                  *)
RECURSIVE ChildrenFrom_redrawn(_, _, _, _)
ChildrenFrom_redrawn(e, ps, p, acc) ==
    IF p > Len(ps) THEN acc
    ELSE ChildrenFrom_redrawn(e, ps, p + 1, acc \o ChildLoop(e, Len(ps), ps[p], 0, <<>>))

RECURSIVE ChildrenFrom(_, _, _, _)
ChildrenFrom(e, ps, p, acc) ==
    IF p > Len(ps) THEN acc
    ELSE ChildrenFrom(e, ps, p + 1, ChildLoop(e, Len(ps), ps[p], 0, acc))

build_child_chunks(ps, e) == ChildrenFrom(e, ps, 1, <<>>)

-----------------------------------------------------------------------------
(* chunk_and_index.main *)

(* The element lists of the chunking specification: up to MaxElems elements *)
(* of one page, element i with identifier i, any document, any length.      *)
ElementAt(i, d, n) == [doc |-> d, page |-> 1, element_id |-> i, type |-> "text",
                       text |-> Text(i, n)]

ElementLists ==
    UNION { { [i \in 1..k |-> ElementAt(i, ds[i], ns[i])] :
                ds \in [1..k -> Docs], ns \in [1..k -> TextLens] } : k \in 0..MaxElems }

RetrievalIdle ==
    /\ r_pc = "idle"
    /\ child_file = [ok |-> FALSE, data |-> <<>>]
    /\ req_file = [ok |-> FALSE, data |-> <<>>]
    /\ top_k = 0
    /\ output_file = [exists |-> FALSE, data |-> <<>>]
    /\ output_before = [exists |-> FALSE, data |-> <<>>]
    /\ child_chunks = <<>>
    /\ requirements = <<>>
    /\ clause_patterns = <<>>
    /\ candidates = <<>>
    /\ exit_code = -1

InitChunk(els) ==
    /\ RetrievalIdle
    /\ BeyondIdle
    /\ pc = "start"
    /\ elements = els
    /\ grouped = <<>>
    /\ parents = <<>>
    /\ children = <<>>
    /\ child_output = "absent"
    /\ entropy = 0
    /\ reran = FALSE
    /\ prev_elements = <<>>
    /\ prev_grouped = <<>>
    /\ prev_output = "absent"

Init == \E els \in ElementLists : InitChunk(els)

(* grouped = group_elements_by_doc(elements); an exception nothing catches *)
(* ends the run ("failed").                                                *)
Group ==
    /\ pc = "start"
    /\ IF GroupRaises(elements)
       THEN /\ pc' = "failed"
            /\ UNCHANGED grouped
       ELSE /\ grouped' = group_elements_by_doc(elements)
            /\ pc' = "grouped"
    /\ UNCHANGED <<elements, parents, children, child_output, entropy, reran,
                   prev_elements, prev_grouped, prev_output, rvars, beyond>>

BuildParents ==
    /\ pc = "grouped"
    /\ \E e \in Entropy :
        /\ entropy' = e
        /\ parents' = build_parent_chunks(grouped, e)
    /\ pc' = "parents"
    /\ UNCHANGED <<elements, grouped, children, child_output, reran,
                   prev_elements, prev_grouped, prev_output, rvars, beyond>>

BuildChildren ==
    /\ pc = "parents"
    /\ children' = build_child_chunks(parents, entropy)
    /\ pc' = "children"
    /\ UNCHANGED <<elements, grouped, parents, child_output, entropy, reran,
                   prev_elements, prev_grouped, prev_output, rvars, beyond>>

SaveChildren ==
    /\ pc = "children"
    /\ child_output' = children
    /\ pc' = "done"
    /\ UNCHANGED <<elements, grouped, parents, children, entropy, reran,
                   prev_elements, prev_grouped, prev_output, rvars, beyond>>

(* The stage is run again on the same elements file. *)
Rerun ==
    /\ pc = "done"
    /\ ~reran
    /\ reran' = TRUE
    /\ prev_elements' = elements
    /\ prev_grouped' = grouped
    /\ prev_output' = child_output
    /\ pc' = "start"
    /\ grouped' = <<>>
    /\ parents' = <<>>
    /\ children' = <<>>
    /\ entropy' = 0
    /\ UNCHANGED <<elements, child_output, rvars, beyond>>

Next ==
    \/ Group
    \/ BuildParents
    \/ BuildChildren
    \/ SaveChildren
    \/ Rerun

Spec == Init /\ [][Next]_vars

-----------------------------------------------------------------------------
(* The grouping specification: the same stage, run on short elements of any *)
(* document, page and order, and run again on a shuffled copy of the file.  *)

Injections(k, S) == { f \in [1..k -> S] : \A i, j \in 1..k : f[i] = f[j] => i = j }

ShortElementLists ==
    UNION { { [i \in 1..k |-> [doc |-> ds[i], page |-> ps[i], element_id |-> ids[i],
                                type |-> "text", text |-> Text(ids[i], 1)]] :
                ds \in [1..k -> Docs], ps \in [1..k -> Pages],
                ids \in Injections(k, 1..MaxElems) } : k \in 0..MaxElems }

ShuffledCopies(els) ==
    { [i \in 1..Len(els) |-> els[p[i]]] : p \in Injections(Len(els), 1..Len(els)) }

InitGroup == \E els \in ShortElementLists : InitChunk(els)

(* The stage is run again on a shuffled copy of the elements file. *)
RerunShuffled ==
    /\ pc = "done"
    /\ ~reran
    /\ reran' = TRUE
    /\ \E els \in ShuffledCopies(elements) : elements' = els
    /\ prev_elements' = elements
    /\ prev_grouped' = grouped
    /\ prev_output' = child_output
    /\ pc' = "start"
    /\ grouped' = <<>>
    /\ parents' = <<>>
    /\ children' = <<>>
    /\ entropy' = 0
    /\ UNCHANGED <<child_output, rvars, beyond>>

NextGroup ==
    \/ Group
    \/ BuildParents
    \/ BuildChildren
    \/ SaveChildren
    \/ RerunShuffled

SpecGroup == InitGroup /\ [][NextGroup]_vars

-----------------------------------------------------------------------------
(* The specification of the optional fields: the same stage, run on short  *)
(* elements any of which may lack its doc, page, element_id or text.       *)

(* The elements with the fields fs of the full element el. *)
Restrict(el, fs) == [f \in fs |-> el[f]]

Optional == {"doc", "page", "element_id", "text"}

(* Element i in full: doc "a", page 0 or 1, identifier i, a one-character  *)
(* text.                                                                   *)
FullElement(i, p) ==
    [doc |-> "a", page |-> p, element_id |-> i, type |-> "text", text |-> Text(i, 1)]

(* Up to MaxElems elements, the i-th with page ps[i] and the optional       *)
(* fields fs[i].                                                           *)
InitPartial ==
    \E k \in 0..MaxElems :
        \E ps \in [1..k -> {0, 1}], fs \in [1..k -> SUBSET Optional] :
            InitChunk([i \in 1..k |-> Restrict(FullElement(i, ps[i]), {"type"} \cup fs[i])])

NextPartial ==
    \/ Group
    \/ BuildParents
    \/ BuildChildren
    \/ SaveChildren

SpecPartial == InitPartial /\ [][NextPartial]_vars

-----------------------------------------------------------------------------
(* The specification of the parent chunks: the same stage, run on elements *)
(* of any document and page whose texts are empty, 950 or 1000 characters  *)
(* long, so that the elements are reordered by page and a document's       *)
(* elements are spread over several parent chunks.                         *)

PagedElement(i, d, p, n) ==
    [doc |-> d, page |-> p, element_id |-> i, type |-> "text", text |-> Text(i, n)]

InitParents ==
    \E k \in 0..MaxElems :
        \E ds \in [1..k -> Docs], ps \in [1..k -> Pages], ns \in [1..k -> {0, 950, 1000}] :
            InitChunk([i \in 1..k |-> PagedElement(i, ds[i], ps[i], ns[i])])

NextParents ==
    \/ Group
    \/ BuildParents
    \/ BuildChildren
    \/ SaveChildren

SpecParents == InitParents /\ [][NextParents]_vars

-----------------------------------------------------------------------------
(* Properties of the chunking stage. *)

Built == pc \in {"parents", "children", "done"}
Sliced == pc \in {"children", "done"}

(* The child chunks of parent p, in output order. *)
ChildrenOf(p) == SelectSeq(children, LAMBDA c : c.parent_id = p.parent_id)

(* The element of the input with the identifier id. *)
ElementOf(id) == CHOOSE el \in {elements[i] : i \in 1..Len(elements)} : el.element_id = id

(* C1: every parent chunk's text is at most 1900 characters long, unless   *)
(* the chunk is made of a single element whose text is longer than 1900.   *)
C1_ParentTextBounded ==
    Built =>
        \A i \in 1..Len(parents) :
            \/ TLen(parents[i].text) <= 1900
            \/ /\ Len(parents[i].element_ids) = 1
               /\ TLen(ElementOf(parents[i].element_ids[1]).text) > 1900

(* C2: a parent text shorter than 600 characters has exactly one child     *)
(* chunk, whose text is the whole parent text.                             *)
C2_ShortParentOneChild ==
    Sliced =>
        \A i \in 1..Len(parents) :
            TLen(parents[i].text) < 600 =>
                /\ Len(ChildrenOf(parents[i])) = 1
                /\ ChildrenOf(parents[i])[1].text = parents[i].text

(* C2, amended: a non-empty parent text of at most 510 characters has      *)
(* exactly one child chunk, the whole text; an empty one has none; one of  *)
(* 511 to 599 characters has two, the first being the whole text and the   *)
(* second its characters from the 511th on.                                *)
C2_ShortParentChildren ==
    Sliced =>
        \A i \in 1..Len(parents) :
            LET t == parents[i].text
                cs == ChildrenOf(parents[i])
            IN  /\ TLen(t) = 0 => cs = <<>>
                /\ TLen(t) \in 1..510 => Len(cs) = 1 /\ cs[1].text = t
                /\ TLen(t) \in 511..599 =>
                     /\ Len(cs) = 2
                     /\ cs[1].text = t
                     /\ cs[2].text = TSub(t, 510, TLen(t))

C2_Witness ==
    /\ pc = "done"
    /\ \E i \in 1..Len(parents) : TLen(parents[i].text) \in 1..510
    /\ \E i \in 1..Len(parents) : TLen(parents[i].text) \in 511..599

(* The part of child chunk c that the next chunk does not overlap: its     *)
(* first 510 characters, or all of it when it is shorter.                  *)
NonOverlapped(c) == IF TLen(c.text) < 510 THEN c.text ELSE TSub(c.text, 0, 510)

RECURSIVE Concat(_)
Concat(ss) == IF ss = <<>> THEN <<>> ELSE TCat(Head(ss), Concat(Tail(ss)))

(* C7: the non-overlapped regions of a parent's child chunks, concatenated *)
(* in order, are the parent text.                                          *)
C7_DeOverlapRoundTrip ==
    Sliced =>
        \A i \in 1..Len(parents) :
            LET cs == ChildrenOf(parents[i])
            IN  Concat([k \in 1..Len(cs) |-> NonOverlapped(cs[k])]) = parents[i].text

C7_Witness ==
    /\ pc = "done"
    /\ \E i \in 1..Len(parents) : Len(ChildrenOf(parents[i])) >= 3
    /\ \E i \in 1..Len(parents) : Len(ChildrenOf(parents[i])) = 1

(* The last n characters of s, the first n characters of s. *)
LastN(s, n) == TSub(s, TLen(s) - n, TLen(s))
FirstN(s, n) == TSub(s, 0, n)

(* C8: two consecutive child chunks of a parent overlap by 90 characters,  *)
(* the last 90 of the earlier being the first 90 of the later, and only    *)
(* the final chunk of a parent may be shorter than 600 characters.         *)
C8_OverlapNinety ==
    Sliced =>
        \A i \in 1..Len(parents) :
            LET cs == ChildrenOf(parents[i])
            IN  \A k \in 1..(Len(cs) - 1) :
                    /\ TLen(cs[k].text) = 600
                    /\ TLen(cs[k + 1].text) >= 90
                    /\ LastN(cs[k].text, 90) = FirstN(cs[k + 1].text, 90)

(* C8, amended: two consecutive child chunks overlap by 90 characters, or  *)
(* by the whole later chunk when it has fewer than 90: with n the length   *)
(* of the later chunk, the last min(90, n) characters of the earlier are   *)
(* the first min(90, n) of the later.  No chunk is longer than 600; a      *)
(* chunk followed by another has 600 characters, unless the later has      *)
(* n < 90 characters, and then it has 510 + n.                             *)
C8_OverlapClipped ==
    Sliced =>
        \A i \in 1..Len(parents) :
            LET cs == ChildrenOf(parents[i])
            IN  /\ \A k \in 1..Len(cs) : TLen(cs[k].text) \in 1..600
                /\ \A k \in 1..(Len(cs) - 1) :
                    LET n == TLen(cs[k + 1].text)
                        o == Min(90, n)
                    IN  /\ LastN(cs[k].text, o) = FirstN(cs[k + 1].text, o)
                        /\ n >= 90 => TLen(cs[k].text) = 600
                        /\ n < 90 => TLen(cs[k].text) = 510 + n

C8_Witness ==
    /\ pc = "done"
    /\ \E i \in 1..Len(parents) :
        LET cs == ChildrenOf(parents[i])
        IN  Len(cs) >= 2 /\ TLen(cs[Len(cs)].text) < 90
    /\ \E i \in 1..Len(parents) :
        LET cs == ChildrenOf(parents[i])
        IN  Len(cs) >= 2 /\ TLen(cs[Len(cs)].text) >= 90

(* A child-chunk file without its identifiers: the doc and text of every   *)
(* chunk, and which chunks share a parent.                                 *)
WithoutIds(out) ==
    [docs_texts |-> [k \in 1..Len(out) |-> [doc |-> out[k].doc, text |-> out[k].text]],
     siblings   |-> { <<j, k>> \in (1..Len(out)) \X (1..Len(out)) :
                        out[j].parent_id = out[k].parent_id }]

IdsOf(out) == [k \in 1..Len(out) |-> <<out[k].child_id, out[k].parent_id>>]

FirstIndexOf(d) ==
    CHOOSE i \in 1..Len(elements) :
        /\ ElDoc(elements[i]) = d
        /\ \A j \in 1..(i - 1) : ElDoc(elements[j]) # d

(* The groups as a set, each with its elements in order. *)
GroupSet(g) == {g[i] : i \in 1..Len(g)}

(* C3: grouping a shuffled copy of the elements gives the same order of    *)
(* document groups and the same order of elements within each group.       *)
C3_ShuffleSameGrouping ==
    (reran /\ pc # "start") => grouped = prev_grouped

(* C3, amended: grouping a shuffled copy of elements with distinct         *)
(* identifiers gives the same document groups with the same order of       *)
(* elements within each group; the groups themselves come in the order in  *)
(* which each document first appears in the list given.                    *)
C3_ShuffleSameGroups ==
    (reran /\ pc # "start") =>
        /\ GroupSet(grouped) = GroupSet(prev_grouped)
        /\ Len(grouped) = Len(prev_grouped)
        /\ \A i, j \in 1..Len(grouped) :
            i < j => FirstIndexOf(grouped[i].doc) < FirstIndexOf(grouped[j].doc)

C3_Witness ==
    /\ reran /\ pc = "grouped"
    /\ elements # prev_elements
    /\ \E i \in 1..Len(grouped) :
        /\ Len(grouped[i].els) >= 2
        /\ grouped[i].els # DocElements(elements, grouped[i].doc)

(* The group of document d. *)
GroupOf(d) == CHOOSE g \in GroupSet(grouped) : g.doc = d

(* The position, in its document's group, of the first element of the i-th *)
(* parent chunk: the chunks of a document take its elements in order.      *)
RECURSIVE TakenBefore(_, _)
TakenBefore(i, j) ==
    IF j = 0 THEN 0
    ELSE TakenBefore(i, j - 1)
         + (IF parents[j].doc = parents[i].doc THEN Len(parents[j].element_ids) ELSE 0)

FirstElementOf(i) == GroupOf(parents[i].doc).els[TakenBefore(i, i - 1) + 1]

(* C11: elements that lack optional fields never make grouping or parent   *)
(* chunking fail; an element without doc is in the group "unknown", an     *)
(* element without page is ordered as page 0 (before every element of a    *)
(* later page of its group) and a parent chunk that starts with it reports *)
(* page 0.                                                                 *)
C11_MissingFieldsNeverFail ==
    /\ pc # "failed"
    /\ pc \in {"grouped", "parents", "children", "done"} =>
        /\ \A i \in 1..Len(elements) :
              "doc" \notin DOMAIN elements[i] =>
                  \E g \in 1..Len(grouped) :
                      /\ grouped[g].doc = "unknown"
                      /\ \E k \in 1..Len(grouped[g].els) : grouped[g].els[k] = elements[i]
        /\ \A g \in 1..Len(grouped) :
              \A k, m \in 1..Len(grouped[g].els) :
                  LET a == grouped[g].els[k]
                      b == grouped[g].els[m]
                  IN  ("page" \notin DOMAIN a /\ "page" \in DOMAIN b /\ b.page > 0) => k < m
    /\ Built =>
        \A i \in 1..Len(parents) :
            "page" \notin DOMAIN FirstElementOf(i) => parents[i].page = 0

(* The length of the text of the element with identifier id. *)
ElLen(id) == TLen(ElText(ElementOf(id)))

RECURSIVE SumLens(_)
SumLens(ids) == IF ids = <<>> THEN 0 ELSE ElLen(Head(ids)) + SumLens(Tail(ids))

(* C12: within a document a parent chunk is closed before an element       *)
(* exactly when elements are buffered and the sum of their lengths plus    *)
(* the element's length exceeds 1900: no element of a chunk but the first  *)
(* brings the sum above 1900, and the first element of the document's next *)
(* chunk would have.  Elements are never split: a chunk's text is its      *)
(* elements' texts joined by newlines.  An element longer than 1900 is     *)
(* alone in its chunk, and a document of two 1000-character elements gives *)
(* two chunks of one element each.                                         *)
C12_FlushExactlyOnOverflow ==
    Built =>
        /\ \A i \in 1..Len(parents) :
            LET ids == parents[i].element_ids
            IN  /\ ids # <<>>
                /\ \A k \in 2..Len(ids) :
                      SumLens(SubSeq(ids, 1, k - 1)) + ElLen(ids[k]) <= 1900
                /\ (i < Len(parents) /\ parents[i + 1].doc = parents[i].doc) =>
                      SumLens(ids) + ElLen(parents[i + 1].element_ids[1]) > 1900
                /\ parents[i].text = Join([k \in 1..Len(ids) |-> ElText(ElementOf(ids[k]))])
                /\ \A k \in 1..Len(ids) : ElLen(ids[k]) > 1900 => Len(ids) = 1
        /\ \A g \in 1..Len(grouped) :
            LET els == grouped[g].els
                ps == SelectSeq(parents, LAMBDA p : p.doc = grouped[g].doc)
            IN  (Len(els) = 2 /\ TLen(ElText(els[1])) = 1000 /\ TLen(ElText(els[2])) = 1000) =>
                    /\ Len(ps) = 2
                    /\ ps[1].element_ids = <<ElId(els[1])>>
                    /\ ps[2].element_ids = <<ElId(els[2])>>

C12_Witness ==
    /\ pc = "done"
    /\ Len(parents) = 2
    /\ parents[1].doc = parents[2].doc
    /\ ElLen(parents[1].element_ids[1]) = 1000
    /\ ElLen(parents[2].element_ids[1]) = 1000

(* C15: a parent chunk whose text is empty has no child chunk. *)
C15_EmptyParentNoChild ==
    Sliced =>
        \A i \in 1..Len(parents) :
            parents[i].text = <<>> =>
                \A k \in 1..Len(children) : children[k].parent_id # parents[i].parent_id

C15_Witness ==
    /\ pc = "done"
    /\ \E i \in 1..Len(parents) : parents[i].text = <<>>
    /\ children # <<>>

(* C16: the child identifiers are pairwise distinct and so are the parent  *)
(* identifiers; a child's parent_id is the identifier of exactly one       *)
(* parent chunk, the child's doc is that parent's doc and the child's text *)
(* is a window of that parent's text, 600 characters from a multiple of    *)
(* 510 on.                                                                 *)
C16_IdsAndBackReferences ==
    Sliced =>
        /\ \A i, j \in 1..Len(parents) :
              parents[i].parent_id = parents[j].parent_id => i = j
        /\ \A k, m \in 1..Len(children) :
              children[k].child_id = children[m].child_id => k = m
        /\ \A k \in 1..Len(children) :
              \E i \in 1..Len(parents) :
                  /\ children[k].parent_id = parents[i].parent_id
                  /\ \A j \in 1..Len(parents) :
                        children[k].parent_id = parents[j].parent_id => j = i
                  /\ children[k].doc = parents[i].doc
                  /\ \E n \in 0..(TLen(parents[i].text) \div 510) :
                        /\ 510 * n < TLen(parents[i].text)
                        /\ children[k].text = TSub(parents[i].text, 510 * n, 510 * n + 600)

C16_Witness ==
    /\ pc = "done"
    /\ Len(parents) = 2
    /\ parents[1].doc # parents[2].doc
    /\ Len(ChildrenOf(parents[1])) >= 2
    /\ Len(ChildrenOf(parents[2])) >= 2

(* The identifiers of the elements of a group, in the group's order. *)
ElementIdsOf(els) == [k \in 1..Len(els) |-> ElId(els[k])]

(* The identifiers of all groups, group after group. *)
RECURSIVE GroupedIds(_)
GroupedIds(grp) ==
    IF grp = <<>> THEN <<>> ELSE ElementIdsOf(Head(grp).els) \o GroupedIds(Tail(grp))

(* The element_ids of the parent chunks, chunk after chunk. *)
RECURSIVE ChunkedIds(_)
ChunkedIds(ps) ==
    IF ps = <<>> THEN <<>> ELSE Head(ps).element_ids \o ChunkedIds(Tail(ps))

(* The places an identifier has in the element_ids of the parent chunks. *)
PlacesOf(id) ==
    {pn \in (1..Len(parents)) \X (1..MaxElems + 1) :
        /\ pn[2] <= Len(parents[pn[1]].element_ids)
        /\ parents[pn[1]].element_ids[pn[2]] = id}

(* C22: the parent chunks partition each document's sorted elements: every *)
(* element's identifier is in the element_ids of exactly one parent chunk, *)
(* once; a parent chunk holds a contiguous run of the sorted elements of   *)
(* its document, in their order by page and identifier, and of no other    *)
(* document; the runs, chunk after chunk, are the sorted elements, group   *)
(* after group; a chunk's page is the page of its first element.           *)
C22_ParentsPartitionSorted ==
    Built =>
        /\ \A i \in 1..Len(elements) : Cardinality(PlacesOf(ElId(elements[i]))) = 1
        /\ \A p \in 1..Len(parents) :
            LET ids == parents[p].element_ids
                sorted == ElementIdsOf(GroupOf(parents[p].doc).els)
            IN  /\ ids # <<>>
                /\ \A n \in 1..Len(ids) : ElDoc(ElementOf(ids[n])) = parents[p].doc
                /\ \E from \in 1..Len(sorted) : ids = SubSeq(sorted, from, from + Len(ids) - 1)
                /\ \A m, n \in 1..Len(ids) :
                      m < n => ~KeyLess(ElementOf(ids[n]), ElementOf(ids[m]))
                /\ parents[p].page = ElPage(ElementOf(ids[1]))
        /\ ChunkedIds(parents) = GroupedIds(grouped)

(* The two elements of a document come in the order of their pages, against *)
(* their order in the file, one parent chunk each, each chunk with the page *)
(* of its element.                                                          *)
C22_Witness ==
    /\ pc = "done"
    /\ Len(elements) = 2
    /\ elements[1].page = 2
    /\ elements[2].page = 1
    /\ Len(parents) = 2
    /\ parents[1].doc = parents[2].doc
    /\ parents[1].element_ids = <<2>>
    /\ parents[1].page = 1
    /\ parents[2].element_ids = <<1>>
    /\ parents[2].page = 2

(* ceil(a / b) for a >= 0 and b > 0. *)
CeilDiv(a, b) == (a + b - 1) \div b

RECURSIVE ChildCount(_)
ChildCount(ps) ==
    IF ps = <<>> THEN 0 ELSE CeilDiv(TLen(Head(ps).text), 510) + ChildCount(Tail(ps))

(* C23: build_child_chunks ends on every list of parent chunks, and a      *)
(* parent text of L characters has exactly ceil(L / 510) child chunks, the *)
(* i-th of them (from 0) the characters 510 * i up to, not including,      *)
(* min(510 * i + 600, L); every child chunk has 1 to 600 characters.       *)
C23_ChildSlicesOfParent ==
    /\ pc = "parents" =>
          Len(build_child_chunks(parents, entropy)) = ChildCount(parents)
    /\ Sliced =>
          \A p \in 1..Len(parents) :
              LET cs == ChildrenOf(parents[p])
                  L == TLen(parents[p].text)
              IN  /\ Len(cs) = CeilDiv(L, 510)
                  /\ \A i \in 0..(Len(cs) - 1) :
                      /\ cs[i + 1].text = TSub(parents[p].text, 510 * i, Min(510 * i + 600, L))
                      /\ TLen(cs[i + 1].text) >= 1
                      /\ TLen(cs[i + 1].text) <= 600

(* A parent text of 1021 characters, two elements of 510 and a newline,    *)
(* has three child chunks, the last of them its last character.            *)
C23_Witness ==
    /\ pc = "done"
    /\ \E p \in 1..Len(parents) :
        /\ TLen(parents[p].text) = 1021
        /\ Len(ChildrenOf(parents[p])) = 3
        /\ TLen(ChildrenOf(parents[p])[1].text) = 600
        /\ TLen(ChildrenOf(parents[p])[3].text) = 1

-----------------------------------------------------------------------------
(* The retrieval stage: scripts/retrieve_candidates.py.                    *)
(*                                                                         *)
(* A regex locator is a string.  The model covers the patterns made of     *)
(* literal letters and spaces, the escape \b (word boundary) and the       *)
(* character "(", which is never closed here and makes re.compile raise    *)
(* re.error, as does a backslash that ends the pattern.                    *)

IsUpper(c) == c \in 65..90
IsWord(c) == c \in 48..57 \/ c \in 65..90 \/ c \in 97..122 \/ c = 95

(* Mutant: the patterns are compiled without re.IGNORECASE. *)
Lower_exact(c) == c

(* The case folding re.IGNORECASE applies to an ASCII character. *)
Lower(c) == IF IsUpper(c) THEN c + 32 ELSE c

(* The pattern as tokens: [wb |-> TRUE] for \b, [wb |-> FALSE, c |-> c]    *)
(* for the literal c.  Valid patterns only.                                *)
RECURSIVE Tokens(_)
Tokens(regex) ==
    IF regex = <<>> THEN <<>>
    ELSE IF regex[1] = 92   \* a backslash
         THEN <<[wb |-> TRUE, c |-> 0]>> \o Tokens(SubSeq(regex, 3, Len(regex)))
         ELSE <<[wb |-> FALSE, c |-> regex[1]]>> \o Tokens(Tail(regex))

(* Whether re.compile(regex, re.IGNORECASE) returns (TRUE) or raises. *)
RECURSIVE IsValidRegex(_)
IsValidRegex(regex) ==
    IF regex = <<>> THEN TRUE
    ELSE IF regex[1] = 40 THEN FALSE   \* "("
    ELSE IF regex[1] = 92   \* a backslash, valid before "b" only
         THEN Len(regex) >= 2 /\ regex[2] = 98 /\ IsValidRegex(SubSeq(regex, 3, Len(regex)))
         ELSE IsValidRegex(Tail(regex))

(* A word boundary lies between text[p] and text[p + 1]. *)
AtBoundary(text, p) ==
    (p > 0 /\ IsWord(text[p])) # (p < Len(text) /\ IsWord(text[p + 1]))

(* The tokens from the t-th on match the text from its p-th character on   *)
(* (p characters are before the match position).                           *)
RECURSIVE MatchAt(_, _, _, _)
MatchAt(toks, t, text, p) ==
    IF t > Len(toks) THEN TRUE
    ELSE IF toks[t].wb
         THEN AtBoundary(text, p) /\ MatchAt(toks, t + 1, text, p)
         ELSE /\ p < Len(text)
              /\ Lower(text[p + 1]) = Lower(toks[t].c)
              /\ MatchAt(toks, t + 1, text, p + 1)

(* The start positions at which the compiled pattern matches. *)
MatchStarts(toks, text) == { p \in 0..Len(text) : MatchAt(toks, 1, text, p) }

(* regex.search(text) is not None *)
Search(toks, text) == MatchStarts(toks, text) # {}

(* A dict as a sequence of [key, value] entries in insertion order:        *)
(* d[key] = value. *)
DictSet(d, key, value) ==
    IF \E i \in 1..Len(d) : d[i].key = key
    THEN [i \in 1..Len(d) |-> IF d[i].key = key THEN [key |-> key, value |-> value] ELSE d[i]]
    ELSE Append(d, [key |-> key, value |-> value])

(* Mutant: a clause without the key gets the pattern "", which matches     *)
(* every text.                                                             *)
ClauseLocators_any(clause) ==
    IF "regex_locators" \in DOMAIN clause THEN clause.regex_locators ELSE << <<>> >>

(* clause.get('regex_locators', []) *)
ClauseLocators(clause) ==
    IF "regex_locators" \in DOMAIN clause THEN clause.regex_locators ELSE <<>>

(* Whether every locator of the clauses compiles. *)
AllCompile(clauses) ==
    \A i \in 1..Len(clauses) :
        \A k \in 1..Len(ClauseLocators(clauses[i])) :
            IsValidRegex(ClauseLocators(clauses[i])[k])

(* The loop over the clauses, from the i-th on: patterns[clause_id] is the *)
(* list of the clause's locators, compiled.                                *)
RECURSIVE CompileFrom(_, _, _)
CompileFrom(clauses, i, patterns) ==
    IF i > Len(clauses) THEN patterns
    ELSE LET regexes == ClauseLocators(clauses[i])
             compiled == [k \in 1..Len(regexes) |-> Tokens(regexes[k])]
         IN  CompileFrom(clauses, i + 1, DictSet(patterns, clauses[i].id, compiled))

(* The clauses without the locators that do not compile. *)
WithoutInvalid(clauses) ==
    [i \in 1..Len(clauses) |->
        [id |-> clauses[i].id,
         regex_locators |-> SelectSeq(ClauseLocators(clauses[i]), IsValidRegex)]]

(* Mutant: a locator that does not compile is skipped. *)
compile_clause_patterns_skipping(clauses) ==
    [raised |-> FALSE, patterns |-> CompileFrom(WithoutInvalid(clauses), 1, <<>>)]

(* compile_clause_patterns: it raises re.error at the first locator that   *)
(* does not compile, and otherwise returns the patterns of every clause.   *)
compile_clause_patterns(clauses) ==
    IF AllCompile(clauses)
    THEN [raised |-> FALSE, patterns |-> CompileFrom(clauses, 1, <<>>)]
    ELSE [raised |-> TRUE, patterns |-> <<>>]

(* Mutant: every occurrence of a locator is counted. *)
MatchCount_occurrences(regex_list, text) ==
    LET RECURSIVE Sum(_)
        Sum(k) == IF k = 0 THEN 0
                  ELSE Sum(k - 1) + Cardinality(MatchStarts(regex_list[k], text))
    IN  Sum(Len(regex_list))

(* The inner loop: match_count += 1 for each regex of the list that finds  *)
(* a match.                                                                *)
MatchCount(regex_list, text) ==
    LET RECURSIVE Count(_)
        Count(k) == IF k = 0 THEN 0
                    ELSE Count(k - 1) + (IF Search(regex_list[k], text) THEN 1 ELSE 0)
    IN  Count(Len(regex_list))

(* chunk.get('text', '') *)
ChunkText(chunk) == IF "text" \in DOMAIN chunk THEN chunk.text ELSE <<>>

(* The candidates of one clause before sorting: the chunks with a count    *)
(* above zero, in chunk order.                                             *)
RECURSIVE Matching(_, _, _)
Matching(chunks, regex_list, i) ==
    IF i > Len(chunks) THEN <<>>
    ELSE LET n == MatchCount(regex_list, ChunkText(chunks[i]))
         IN  (IF n > 0
              THEN <<[child_id |-> chunks[i].child_id, text |-> ChunkText(chunks[i]),
                      match_count |-> n]>>
              ELSE <<>>) \o Matching(chunks, regex_list, i + 1)

RECURSIVE InsertDesc(_, _)
InsertDesc(sorted, c) ==
    IF sorted = <<>> THEN <<c>>
    ELSE IF c.match_count > Head(sorted).match_count THEN <<c>> \o sorted
    ELSE <<Head(sorted)>> \o InsertDesc(Tail(sorted), c)

(* candidates.sort(key=match_count, reverse=True): stable, equal counts    *)
(* keep their order.                                                       *)
RECURSIVE SortDesc(_)
SortDesc(cs) ==
    IF cs = <<>> THEN <<>>
    ELSE InsertDesc(SortDesc(SubSeq(cs, 1, Len(cs) - 1)), cs[Len(cs)])

(* cs[:k], for any integer k: a negative k counts from the end. *)
SliceTo(cs, k) ==
    IF k >= 0 THEN SubSeq(cs, 1, Min(k, Len(cs)))
    ELSE SubSeq(cs, 1, Len(cs) + k)

RECURSIVE SelectFrom(_, _, _, _, _)
SelectFrom(chunks, patterns, k, i, results) ==
    IF i > Len(patterns) THEN results
    ELSE SelectFrom(chunks, patterns, k, i + 1,
                    DictSet(results, patterns[i].key,
                            SliceTo(SortDesc(Matching(chunks, patterns[i].value, 1)), k)))

offline_candidate_selection(chunks, patterns, k) == SelectFrom(chunks, patterns, k, 1, <<>>)

-----------------------------------------------------------------------------
(* retrieve_candidates.main *)

(* Chunk texts: "FOB fob", "Fobs", "no", "". *)
ChunkTexts == { <<70, 79, 66, 32, 102, 111, 98>>, <<70, 111, 98, 115>>, <<110, 111>>, <<>> }

(* Locators: "fob", "\bFOB\b", "o", "(". *)
Locators == { <<102, 111, 98>>, <<92, 98, 70, 79, 66, 92, 98>>, <<111>>, <<40>> }

TopKs == {-1, 0, 1, 2, 50}

SeqsUpTo(S, n) == UNION { [1..k -> S] : k \in 0..n }

(* The child-chunk files: unreadable, or up to MaxChunks chunks, the i-th  *)
(* with child_id i.                                                        *)
ChildFiles ==
    { [ok |-> FALSE, data |-> <<>>] } \cup
    { [ok |-> TRUE, data |-> [i \in 1..Len(ts) |-> [child_id |-> i, text |-> ts[i]]]] :
        ts \in SeqsUpTo(ChunkTexts, MaxChunks) }

(* The second clause of a requirements file, when it has one. *)
SecondClauses ==
    { [id |-> "c2"],
      [id |-> "c2", regex_locators |-> << <<40>> >>],
      [id |-> "c1", regex_locators |-> << <<111>> >>] }

(* The requirements files: unreadable, no clause, or a clause c1 with up   *)
(* to two locators, alone or followed by a second clause.                  *)
ReqFiles ==
    { [ok |-> FALSE, data |-> <<>>], [ok |-> TRUE, data |-> <<>>] } \cup
    { [ok |-> TRUE, data |-> << [id |-> "c1", regex_locators |-> ls] >>] :
        ls \in SeqsUpTo(Locators, 2) } \cup
    { [ok |-> TRUE, data |-> << [id |-> "c1", regex_locators |-> ls], c >>] :
        ls \in SeqsUpTo(Locators, 2), c \in SecondClauses }

(* The output file before the run: absent, or left by an earlier run. *)
OutputFiles ==
    { [exists |-> FALSE, data |-> <<>>],
      [exists |-> TRUE, data |-> << [key |-> "old", value |-> <<>>] >>] }

ChunkingIdle ==
    /\ pc = "idle"
    /\ elements = <<>>
    /\ grouped = <<>>
    /\ parents = <<>>
    /\ children = <<>>
    /\ child_output = "absent"
    /\ entropy = 0
    /\ reran = FALSE
    /\ prev_elements = <<>>
    /\ prev_grouped = <<>>
    /\ prev_output = "absent"

InitRetrieve ==
    /\ ChunkingIdle
    /\ BeyondIdle
    /\ r_pc = "start"
    /\ child_file \in ChildFiles
    /\ req_file \in ReqFiles
    /\ top_k \in TopKs
    /\ output_file \in OutputFiles
    /\ output_before = output_file
    /\ child_chunks = <<>>
    /\ requirements = <<>>
    /\ clause_patterns = <<>>
    /\ candidates = <<>>
    /\ exit_code = -1

(* An exception nothing catches ends the process with status 1. *)
Abort ==
    /\ r_pc' = "exit"
    /\ exit_code' = 1

(* child_chunks = load_json(args.child_chunks) *)
LoadChunks ==
    /\ r_pc = "start"
    /\ IF child_file.ok
       THEN /\ child_chunks' = child_file.data
            /\ r_pc' = "chunks"
            /\ UNCHANGED exit_code
       ELSE /\ Abort
            /\ UNCHANGED child_chunks
    /\ UNCHANGED <<child_file, req_file, top_k, output_file, output_before,
                   requirements, clause_patterns, candidates, cvars, beyond>>

(* requirements = load_json(args.requirements) *)
LoadRequirements ==
    /\ r_pc = "chunks"
    /\ IF req_file.ok
       THEN /\ requirements' = req_file.data
            /\ r_pc' = "requirements"
            /\ UNCHANGED exit_code
       ELSE /\ Abort
            /\ UNCHANGED requirements
    /\ UNCHANGED <<child_file, req_file, top_k, output_file, output_before,
                   child_chunks, clause_patterns, candidates, cvars, beyond>>

(* clause_patterns = compile_clause_patterns(requirements) *)
Compile ==
    /\ r_pc = "requirements"
    /\ IF ~compile_clause_patterns(requirements).raised
       THEN /\ clause_patterns' = compile_clause_patterns(requirements).patterns
            /\ r_pc' = "compiled"
            /\ UNCHANGED exit_code
       ELSE /\ Abort
            /\ UNCHANGED clause_patterns
    /\ UNCHANGED <<child_file, req_file, top_k, output_file, output_before,
                   child_chunks, requirements, candidates, cvars, beyond>>

(* candidates = offline_candidate_selection(child_chunks, clause_patterns, top_k) *)
Select ==
    /\ r_pc = "compiled"
    /\ candidates' = offline_candidate_selection(child_chunks, clause_patterns, top_k)
    /\ r_pc' = "selected"
    /\ UNCHANGED <<child_file, req_file, top_k, output_file, output_before,
                   child_chunks, requirements, clause_patterns, exit_code, cvars, beyond>>

(* save_json(candidates, args.output), and main returns. *)
Save ==
    /\ r_pc = "selected"
    /\ output_file' = [exists |-> TRUE, data |-> candidates]
    /\ r_pc' = "exit"
    /\ exit_code' = 0
    /\ UNCHANGED <<child_file, req_file, top_k, output_before,
                   child_chunks, requirements, clause_patterns, candidates, cvars, beyond>>

NextRetrieve ==
    \/ LoadChunks
    \/ LoadRequirements
    \/ Compile
    \/ Select
    \/ Save

SpecRetrieve == InitRetrieve /\ [][NextRetrieve]_vars

-----------------------------------------------------------------------------
(* Properties of the retrieval stage. *)

(* offline_candidate_selection has returned. *)
Selected == r_pc = "selected" \/ (r_pc = "exit" /\ exit_code = 0)

Max(a, b) == IF a > b THEN a ELSE b

ClauseIds(clauses) == { clauses[i].id : i \in 1..Len(clauses) }

(* The compiled locators of the clause with identifier id. *)
PatternsOf(id) ==
    (CHOOSE e \in {clause_patterns[i] : i \in 1..Len(clause_patterns)} : e.key = id).value

(* The text of the chunk with identifier child_id. *)
TextOf(child_id) ==
    ChunkText(CHOOSE c \in {child_chunks[i] : i \in 1..Len(child_chunks)} :
                  c.child_id = child_id)

(* C4: a candidate's match_count is the number of distinct locators of the *)
(* clause that find at least one match in the chunk's text.                *)
C4_CountsDistinctLocators ==
    Selected =>
        \A i \in 1..Len(candidates) :
            \A k \in 1..Len(candidates[i].value) :
                LET c == candidates[i].value[k]
                    ps == PatternsOf(candidates[i].key)
                IN  c.match_count =
                        Cardinality({ r \in {ps[n] : n \in 1..Len(ps)} :
                                        Search(r, TextOf(c.child_id)) })

(* C4, amended: a candidate's match_count is the number of entries of the  *)
(* clause's locator list that find at least one match in the chunk's text: *)
(* an entry contributes at most 1 however many times it matches, and a     *)
(* locator listed twice is counted twice.                                  *)
C4_CountsLocatorEntries ==
    Selected =>
        \A i \in 1..Len(candidates) :
            \A k \in 1..Len(candidates[i].value) :
                LET c == candidates[i].value[k]
                    ps == PatternsOf(candidates[i].key)
                IN  /\ c.text = TextOf(c.child_id)
                    /\ c.match_count =
                         Cardinality({ n \in 1..Len(ps) : Search(ps[n], c.text) })

C4_Witness ==
    /\ r_pc = "exit" /\ exit_code = 0
    /\ \E i \in 1..Len(candidates) :
        \E k \in 1..Len(candidates[i].value) :
            LET c == candidates[i].value[k]
                ps == PatternsOf(candidates[i].key)
            IN  /\ c.match_count = 2
                /\ Len(ps) = 2 /\ ps[1] = ps[2]
                /\ Cardinality(MatchStarts(ps[1], c.text)) >= 2

(* C5: for every top_k the option accepts, a clause's candidate list has   *)
(* at most top_k entries.                                                  *)
C5_AtMostTopK ==
    Selected =>
        \A i \in 1..Len(candidates) : Len(candidates[i].value) <= top_k

(* The positions of the chunks that a locator of the list matches. *)
MatchingChunks(ps) ==
    { n \in 1..Len(child_chunks) :
        \E m \in 1..Len(ps) : Search(ps[m], ChunkText(child_chunks[n])) }

LocatorHits(ps, n) ==
    Cardinality({ m \in 1..Len(ps) : Search(ps[m], ChunkText(child_chunks[n])) })

(* Chunk a is ranked before chunk b: a higher count, or the same count and *)
(* an earlier position.                                                    *)
RankedBefore(ps, a, b) ==
    \/ LocatorHits(ps, a) > LocatorHits(ps, b)
    \/ LocatorHits(ps, a) = LocatorHits(ps, b) /\ a < b

(* The number of matching chunks ranked before chunk n. *)
RankOf(ps, n) == Cardinality({ a \in MatchingChunks(ps) : RankedBefore(ps, a, n) })

(* The list holds, in rank order, the len first-ranked matching chunks. *)
IsRankedPrefix(list, ps, len) ==
    /\ Len(list) = len
    /\ \A k \in 1..Len(list) :
        \E n \in MatchingChunks(ps) :
            /\ RankOf(ps, n) = k - 1
            /\ list[k].child_id = child_chunks[n].child_id

(* C6: a clause's candidate list is exactly the first top_k entries of the *)
(* matching chunks ordered by match_count descending, ties in chunk order. *)
C6_FirstKRanked ==
    Selected =>
        \A i \in 1..Len(candidates) :
            LET ps == PatternsOf(candidates[i].key)
            IN  IsRankedPrefix(candidates[i].value, ps,
                               Min(Max(top_k, 0), Cardinality(MatchingChunks(ps))))

(* The locators of the clause with identifier id; when the requirements    *)
(* define an identifier twice, the later definition is the clause.         *)
LocatorsOf(id) ==
    LET last == CHOOSE i \in 1..Len(requirements) :
                    /\ requirements[i].id = id
                    /\ \A j \in (i + 1)..Len(requirements) : requirements[j].id # id
    IN  IF "regex_locators" \in DOMAIN requirements[last]
        THEN requirements[last].regex_locators
        ELSE <<>>

(* A letter without its case. *)
CaseFold(c) == IF c \in 65..90 THEN c + 32 ELSE c

(* The locator is made of plain characters, and it occurs in the text when *)
(* case is ignored.                                                        *)
IsLiteral(l) == \A k \in 1..Len(l) : l[k] # 92 /\ l[k] # 40

FoldedOccurs(l, t) ==
    \E p \in 0..(Len(t) - Len(l)) :
        \A k \in 1..Len(l) : CaseFold(t[p + k]) = CaseFold(l[k])

(* The locator matches the text. *)
LocatorMatches(l, t) == IF IsLiteral(l) THEN FoldedOccurs(l, t) ELSE Search(Tokens(l), t)

(* C13: with top_k at least the number of child chunks, every clause has a *)
(* candidate list, and a chunk is in it if and only if at least one of the *)
(* clause's locators matches the chunk's text, case ignored; every listed  *)
(* candidate has match_count >= 1 and no chunk is listed twice.            *)
C13_ListedIffMatched ==
    (Selected /\ top_k >= Len(child_chunks)) =>
        /\ { candidates[i].key : i \in 1..Len(candidates) } = ClauseIds(requirements)
        /\ \A i \in 1..Len(candidates) :
            LET ls == LocatorsOf(candidates[i].key)
                list == candidates[i].value
            IN  /\ \A n \in 1..Len(child_chunks) :
                      (\E k \in 1..Len(list) : list[k].child_id = child_chunks[n].child_id)
                      <=> (\E m \in 1..Len(ls) : LocatorMatches(ls[m], ChunkText(child_chunks[n])))
                /\ \A k \in 1..Len(list) : list[k].match_count >= 1
                /\ \A k, m \in 1..Len(list) : list[k].child_id = list[m].child_id => k = m

(* A clause lists one chunk, matched only when case is ignored, and leaves *)
(* out another that none of its locators matches.                          *)
C13_Witness ==
    /\ r_pc = "exit" /\ exit_code = 0
    /\ top_k >= Len(child_chunks)
    /\ Len(child_chunks) = 2
    /\ \E i \in 1..Len(candidates) :
        /\ Len(candidates[i].value) = 1
        /\ candidates[i].value[1].text = <<70, 111, 98, 115>>
        /\ LocatorsOf(candidates[i].key) = << <<102, 111, 98>> >>

(* C14: a clause with no regex locators, the key absent or its list empty,  *)
(* is a key of the result and its candidate list is empty, whatever the    *)
(* child chunks and top_k are.                                             *)
C14_NoLocatorsNoCandidates ==
    Selected =>
        \A id \in ClauseIds(requirements) :
            LocatorsOf(id) = <<>> =>
                \E i \in 1..Len(candidates) :
                    /\ candidates[i].key = id
                    /\ candidates[i].value = <<>>
                    /\ \A j \in 1..Len(candidates) : candidates[j].key = id => j = i

(* A clause without the key has no candidate among two chunks that another *)
(* clause lists.                                                           *)
C14_Witness ==
    /\ r_pc = "exit" /\ exit_code = 0
    /\ Len(requirements) = 2
    /\ "regex_locators" \notin DOMAIN requirements[2]
    /\ Len(candidates) = 2
    /\ Len(candidates[1].value) = 2
    /\ candidates[2] = [key |-> requirements[2].id, value |-> <<>>]

(* The run has an input it fails on. *)
InputFails == ~child_file.ok \/ ~req_file.ok \/ ~AllCompile(req_file.data)

(* C10: a run that cannot read an input file or compile a locator ends     *)
(* with a non-zero status and leaves the output file as it was; the output *)
(* file is written only once the patterns of all clauses are compiled and  *)
(* the candidates of all clauses selected, and the run then ends with 0.   *)
C10_NoPartialOutput ==
    /\ r_pc # "exit" => output_file = output_before
    /\ (r_pc = "exit" /\ InputFails) => (exit_code # 0 /\ output_file = output_before)
    /\ (r_pc = "exit" /\ ~InputFails) => exit_code = 0
    /\ (r_pc = "exit" /\ exit_code = 0) =>
        /\ output_file = [exists |-> TRUE, data |-> candidates]
        /\ { candidates[i].key : i \in 1..Len(candidates) } = ClauseIds(req_file.data)
        /\ { clause_patterns[i].key : i \in 1..Len(clause_patterns) } = ClauseIds(req_file.data)

C10_Witness ==
    /\ r_pc = "exit" /\ exit_code = 1
    /\ child_file.ok /\ req_file.ok
    /\ Len(req_file.data) = 2
    /\ Len(ClauseLocators(req_file.data[1])) >= 1
    /\ IsValidRegex(ClauseLocators(req_file.data[1])[1])
    /\ output_before.exists /\ output_file = output_before

-----------------------------------------------------------------------------
(* The normalizer: normalize_text of scripts/normalize_and_partition.py.   *)

(* "۰۱۲۳۴۵۶۷۸۹" (U+06F0 to U+06F9) and "0123456789" *)
PERSIAN_DIGITS == <<1776, 1777, 1778, 1779, 1780, 1781, 1782, 1783, 1784, 1785>>
ENGLISH_DIGITS == <<48, 49, 50, 51, 52, 53, 54, 55, 56, 57>>

(* "يی": Arabic yeh U+064A and Farsi yeh U+06CC; "كک": Arabic kaf U+0643   *)
(* and keheh U+06A9.                                                       *)
YEH_VARIANTS == <<1610, 1740>>
KAF_VARIANTS == <<1603, 1705>>

(* Mutant: the digit table is zipped against the digits in reverse. *)
Translate_reversed(text) ==
    [i \in 1..Len(text) |->
        IF \E k \in 1..10 : PERSIAN_DIGITS[k] = text[i]
        THEN ENGLISH_DIGITS[11 - (CHOOSE k \in 1..10 : PERSIAN_DIGITS[k] = text[i])]
        ELSE text[i]]

(* text.translate(str.maketrans({p: e for p, e in zip(PERSIAN_DIGITS,      *)
(* ENGLISH_DIGITS)}))                                                      *)
Translate(text) ==
    [i \in 1..Len(text) |->
        IF \E k \in 1..10 : PERSIAN_DIGITS[k] = text[i]
        THEN ENGLISH_DIGITS[CHOOSE k \in 1..10 : PERSIAN_DIGITS[k] = text[i]]
        ELSE text[i]]

(* text.replace(old, new) for one-character old and new *)
Replace(text, old, new) == [i \in 1..Len(text) |-> IF text[i] = old THEN new ELSE text[i]]

(* text.replace(old, "") for a one-character old *)
Remove(text, old) == SelectSeq(text, LAMBDA c : c # old)

(* for variant in variants: text = text.replace(variant, new) *)
RECURSIVE ReplaceEach(_, _, _)
ReplaceEach(text, variants, new) ==
    IF variants = <<>> THEN text
    ELSE ReplaceEach(Replace(text, Head(variants), new), Tail(variants), new)

(* "if not text: return ''" holds for None and for the empty string. *)
normalize_text(arg) ==
    IF arg.none \/ arg.chars = <<>> THEN <<>>
    ELSE Remove(ReplaceEach(ReplaceEach(Translate(arg.chars), YEH_VARIANTS, 1740),
                            KAF_VARIANTS, 1705),
                8204)

(* The characters of the arguments: the Persian digits 0 and 9, the        *)
(* Arabic-Indic digit 1 (U+0661), the Arabic yeh, the two kafs, the        *)
(* zero-width non-joiner (U+200C) and the letter a.                        *)
NormChars == {1776, 1785, 1633, 1610, 1603, 1705, 8204, 97}

NormArgs ==
    { [none |-> TRUE, chars |-> <<>>] } \cup
    { [none |-> FALSE, chars |-> cs] : cs \in UNION { [1..k -> NormChars] : k \in 0..MaxText } }

InitNormalize ==
    /\ ChunkingIdle
    /\ RetrievalIdle
    /\ n_pc = "start"
    /\ n_text \in NormArgs
    /\ n_result = <<>>
    /\ WorkerIdle
    /\ JudgeIdle
    /\ ClassifierIdle

Normalize ==
    /\ n_pc = "start"
    /\ n_result' = normalize_text(n_text)
    /\ n_pc' = "done"
    /\ UNCHANGED <<n_text, cvars, rvars, wvars, jvars, kvars>>

NextNormalize == Normalize

SpecNormalize == InitNormalize /\ [][NextNormalize]_vars

(* The canonical character of c: the ASCII digit of a Persian digit, the   *)
(* Farsi yeh for the Arabic yeh, the keheh for the Arabic kaf, c itself    *)
(* otherwise.                                                              *)
Canonical(c) ==
    IF c \in 1776..1785 THEN c - 1776 + 48
    ELSE IF c = 1610 THEN 1740
    ELSE IF c = 1603 THEN 1705
    ELSE c

(* The positions of the argument's characters that are not zero-width      *)
(* non-joiners, in order.                                                  *)
Kept(cs) == SelectSeq([i \in 1..Len(cs) |-> i], LAMBDA i : cs[i] # 8204)

(* A string: a sequence of code points. *)
IsString(r) == DOMAIN r = 1..Len(r) /\ \A i \in 1..Len(r) : r[i] \in Nat

(* C17: normalize_text has a value, a string, for every argument, and the  *)
(* call returns it; the result has no                                      *)
(* Persian digit, no Arabic yeh, no Arabic kaf and no zero-width           *)
(* non-joiner; it is the argument without its zero-width non-joiners, each *)
(* remaining character replaced by its canonical character, in order; the  *)
(* result of None and of the empty string is the empty string.             *)
C17_NormalizeCanonical ==
    /\ n_pc = "start" => IsString(normalize_text(n_text))
    /\ n_pc = "done" =>
        /\ IsString(n_result)
        /\ \A i \in 1..Len(n_result) :
              /\ n_result[i] \notin 1776..1785
              /\ n_result[i] \notin {1610, 1603, 8204}
        /\ ~n_text.none =>
              /\ Len(n_result) = Len(Kept(n_text.chars))
              /\ \A i \in 1..Len(n_result) :
                    n_result[i] = Canonical(n_text.chars[Kept(n_text.chars)[i]])
        /\ (n_text.none \/ n_text.chars = <<>>) => n_result = <<>>

C17_Witness ==
    /\ n_pc = "done"
    /\ ~n_text.none
    /\ \E i \in 1..Len(n_text.chars) : n_text.chars[i] = 1785
    /\ \E i \in 1..Len(n_text.chars) : n_text.chars[i] = 1610
    /\ \E i \in 1..Len(n_text.chars) : n_text.chars[i] = 1603
    /\ \E i \in 1..Len(n_text.chars) : n_text.chars[i] = 8204
    /\ Len(n_result) = 3

-----------------------------------------------------------------------------
(* The worker: the FastAPI applications of worker/main.py and of           *)
(* worker/api/index.py.  A handler declared "def" reads or writes at most  *)
(* one file and is one step; po_check is a coroutine, and a step of it     *)
(* runs from one await to the next, the other requests being handled in    *)
(* between.  A file of the data root is [area, job, name, data]:           *)
(* DATA_ROOT/in/<job>/<name>,                                              *)
(* DATA_ROOT/status/<job>.json (name "json") or DATA_ROOT/out/<job>/<name>.*)
(* A job identifier is a number: 1, 2, ... are the identifiers po_check    *)
(* has drawn, 0 is an identifier that no job has, and -1 is the path       *)
(* segment "..", which the routes accept as a job_id like any other        *)
(* segment: DATA_ROOT/out/../<name> and DATA_ROOT/in/../<name> are the     *)
(* file DATA_ROOT/<name>, written [area |-> "root", job |-> -1].           *)

(* The X-Worker-Token header of a request: absent (None), or its value,   *)
(* "s3cret" or another one.                                               *)
NoHeader == [present |-> FALSE, value |-> ""]
Headers == { NoHeader } \cup { [present |-> TRUE, value |-> v] : v \in {"s3cret", "wrong"} }

(* WORKER_TOKEN: os.getenv("WORKER_TOKEN", "") of main.py gives "" when the *)
(* variable is not set; os.getenv("WORKER_TOKEN") of api/index.py gives    *)
(* None, written "" as well: "not WORKER_TOKEN" holds for both.            *)
WorkerTokens == {"", "s3cret"}

(* The body parameter of PUT: absent (None), or its bytes. *)
NoBody == [present |-> FALSE, data |-> ""]
Bodies == { NoBody } \cup { [present |-> TRUE, data |-> d] : d \in {"{\"status\": \"done\"}", "garbage"} }

(* The body parameter of PUT /artifact: absent, or the bytes of a report. *)
ArtifactBodies == { NoBody, [present |-> TRUE, data |-> "REPORT"] }

(* The file names of GET /artifact, and those of PUT /artifact. *)
FileNames == {"po", "pi"}
ArtifactNames == {"po"}

(* json.dumps({"status": "received"}) and json.dumps(toggles) with the     *)
(* default toggles.                                                        *)
StatusReceived == "{\"status\": \"received\"}"
TogglesJson == "{\"template_override\": \"irr_main\", \"noban_option\": \"a\", \"pg_waived\": \"false\", \"apg_required\": \"true\"}"

(* json.loads(data) returns: data is a JSON document. *)
IsJson(data) == data # "garbage"

(* The outcomes of requests.post in _dispatch_to_github: a 2xx status,     *)
(* another status, an exception.                                           *)
PostOutcomes == {"2xx", "refused", "exception"}

NoRequest == [app |-> "none", route |-> "none", job |-> 0, name |-> "", token |-> NoHeader,
              body |-> NoBody]
NoResponse == [code |-> 0, body |-> ""]

Request(app, route, job, name, token, body) ==
    [app |-> app, route |-> route, job |-> job, name |-> name, token |-> token, body |-> body]

(* Mutant: a request without the header is let through. *)
verify_token_lenient(x_worker_token) ==
    IF w_token = "" THEN 500
    ELSE IF x_worker_token.present /\ x_worker_token.value # w_token THEN 401
    ELSE 0

(* verify_token: the status of the HTTPException it raises, 0 when it      *)
(* returns.                                                                *)
verify_token(x_worker_token) ==
    IF w_token = "" THEN 500
    ELSE IF ~(x_worker_token.present /\ x_worker_token.value = w_token) THEN 401
    ELSE 0

(* The file that the path DATA_ROOT / area / job_id / name (for the status *)
(* area DATA_ROOT / "status" / f"{job_id}.json") names.                    *)
Locate(area, job, name) ==
    IF area \in {"in", "out"} /\ job < 0
    THEN [area |-> "root", job |-> job, name |-> name]
    ELSE [area |-> area, job |-> job, name |-> name]

(* The directory DATA_ROOT / area exists: _save_binary makes the parents   *)
(* of the file it writes, DATA_ROOT / "out" / ".." among them.             *)
DirExists(files, area) ==
    \E f \in files : f.area = area \/ (area = "out" /\ f.area = "root")

At(f, loc) == f.area = loc.area /\ f.job = loc.job /\ f.name = loc.name

(* _read_binary(path): the file at the path, if there is one; a path       *)
(* through ".." needs the directory it goes through.                       *)
Exists(area, job, name) ==
    /\ \E f \in w_files : At(f, Locate(area, job, name))
    /\ Locate(area, job, name).area = "root" => DirExists(w_files, area)

ReadBinary(area, job, name) ==
    (CHOOSE f \in w_files : At(f, Locate(area, job, name))).data

(* _save_binary(path, data): the files after the write. *)
SaveBinary(files, area, job, name, data) ==
    { f \in files : ~At(f, Locate(area, job, name)) }
    \cup { [area |-> Locate(area, job, name).area, job |-> job, name |-> name, data |-> data] }

(* The state a handler leaves behind: the request, its response, and what  *)
(* it stored, drew and dispatched.                                         *)
Respond(req, code, body) ==
    /\ w_req' = req
    /\ w_resp' = [code |-> code, body |-> body]
    /\ w_count' = w_count + 1

Untouched == UNCHANGED <<w_files, w_jobs, w_dispatches, w_pending>>

(* The application takes a request: up to MaxRequests requests are made,   *)
(* those answered and those of the suspended po_check calls.               *)
Accepting == w_pc = "ready" /\ w_count + Cardinality(w_pending) < MaxRequests

Serving(app) == Accepting /\ w_app = app

WorkerFrame == UNCHANGED <<w_pc, w_app, w_token, w_gh, cvars, rvars, nvars, jvars, kvars>>

(* GET /health of main.py: no dependency on verify_token. *)
Health ==
    /\ Serving("main")
    /\ \E h \in Headers :
        /\ Respond(Request("main", "GET /health", 0, "", h, NoBody), 200, "{\"ok\": true}")
        /\ Untouched
    /\ WorkerFrame

(* Mutant: the status record is not written before the dispatch. *)
StoredByPoCheck_nostatus(files, job_id) ==
    SaveBinary(SaveBinary(files,
        "in", job_id, "commission", "COMMISSION"),
        "in", job_id, "toggles.json", TogglesJson)

(* The files after the last three _save_binary calls of po_check, those    *)
(* that follow "await commission.read()": commission, toggles.json and the *)
(* status record.                                                          *)
StoredByPoCheck(files, job_id) ==
    SaveBinary(SaveBinary(SaveBinary(files,
        "in", job_id, "commission", "COMMISSION"),
        "in", job_id, "toggles.json", TogglesJson),
        "status", job_id, "json", StatusReceived)

(* The bytes "await po.read()" and "await pi.read()" return. *)
Uploaded(name) == IF name = "po" THEN "PO" ELSE "PI"

(* POST /po-check with its three files, up to its first await.  po_check   *)
(* is a coroutine: once verify_token has let the request through it draws  *)
(* the job identifier and is suspended at "await po.read()", and the event *)
(* loop handles other requests until the read is done.                     *)
PoCheck ==
    /\ Serving("main")
    /\ \E h \in Headers :
        LET req == Request("main", "POST /po-check", 0, "", h, NoBody)
            job_id == w_jobs + 1
        IN  IF verify_token(h) # 0
            THEN Respond(req, verify_token(h), "") /\ Untouched
            ELSE /\ w_jobs' = job_id
                 /\ w_pending' = w_pending \cup {[job |-> job_id, token |-> h, at |-> "po"]}
                 /\ UNCHANGED <<w_files, w_dispatches, w_req, w_resp, w_count>>
    /\ WorkerFrame

(* po_check resumes with the bytes of po or of pi, saves them and is       *)
(* suspended at the read of the next upload.                               *)
PoCheckSave ==
    /\ w_pc = "ready"
    /\ \E p \in w_pending :
        /\ p.at \in {"po", "pi"}
        /\ w_files' = SaveBinary(w_files, "in", p.job, p.at, Uploaded(p.at))
        /\ w_pending' = (w_pending \ {p})
                \cup {[p EXCEPT !.at = IF p.at = "po" THEN "pi" ELSE "commission"]}
        /\ UNCHANGED <<w_jobs, w_dispatches, w_req, w_resp, w_count>>
    /\ WorkerFrame

(* po_check resumes with the bytes of commission and runs to its end       *)
(* without another await.  _dispatch_to_github returns without a request   *)
(* when a GH_* variable is missing and catches every exception of          *)
(* requests.post; a request it sends is recorded with its outcome and with *)
(* the files of the job that are stored when it is sent.                   *)
PoCheckFinish ==
    /\ w_pc = "ready"
    /\ \E p \in w_pending :
        LET req == Request("main", "POST /po-check", 0, "", p.token, NoBody)
            saved == StoredByPoCheck(w_files, p.job)
        IN  /\ p.at = "commission"
            /\ w_files' = saved
            /\ w_pending' = w_pending \ {p}
            /\ UNCHANGED w_jobs
            /\ IF w_gh
               THEN \E outcome \in PostOutcomes :
                       /\ w_dispatches' = Append(w_dispatches,
                               [job |-> p.job, outcome |-> outcome,
                                stored |-> {f \in saved : f.job = p.job}])
                       /\ Respond(req, 200,
                                  IF outcome = "2xx" THEN "received, dispatched"
                                  ELSE "received, not dispatched")
               ELSE /\ UNCHANGED w_dispatches
                    /\ Respond(req, 200, "received, not dispatched")
    /\ WorkerFrame

(* GET /status/{job_id} *)
GetStatus ==
    /\ Serving("main")
    /\ \E h \in Headers, j \in 0..w_jobs :
        LET req == Request("main", "GET /status", j, "", h, NoBody)
        IN  /\ IF verify_token(h) # 0 THEN Respond(req, verify_token(h), "")
               ELSE IF ~Exists("status", j, "json") THEN Respond(req, 200, "{\"status\": \"unknown\"}")
               ELSE IF ~IsJson(ReadBinary("status", j, "json")) THEN Respond(req, 500, "")
               ELSE Respond(req, 200, ReadBinary("status", j, "json"))
            /\ Untouched
    /\ WorkerFrame

(* PUT /status/{job_id} *)
PutStatus ==
    /\ Serving("main")
    /\ \E h \in Headers, j \in 0..w_jobs, b \in Bodies :
        LET req == Request("main", "PUT /status", j, "", h, b)
        IN  IF verify_token(h) # 0 THEN Respond(req, verify_token(h), "") /\ Untouched
            ELSE IF ~b.present THEN Respond(req, 400, "") /\ Untouched
            ELSE /\ w_files' = SaveBinary(w_files, "status", j, "json", b.data)
                 /\ Respond(req, 200, "{\"status\": \"ok\"}")
                 /\ UNCHANGED <<w_jobs, w_dispatches, w_pending>>
    /\ WorkerFrame

(* GET /artifact/{job_id}/{filename} *)
GetArtifact ==
    /\ Serving("main")
    /\ \E h \in Headers, j \in (-1)..w_jobs, name \in FileNames :
        LET req == Request("main", "GET /artifact", j, name, h, NoBody)
        IN  /\ IF verify_token(h) # 0 THEN Respond(req, verify_token(h), "")
               ELSE IF Exists("out", j, name) THEN Respond(req, 200, ReadBinary("out", j, name))
               ELSE IF Exists("in", j, name) THEN Respond(req, 200, ReadBinary("in", j, name))
               ELSE Respond(req, 404, "")
            /\ Untouched
    /\ WorkerFrame

(* PUT /artifact/{job_id}/{filename} *)
PutArtifact ==
    /\ Serving("main")
    /\ \E h \in Headers, j \in (-1)..w_jobs, name \in ArtifactNames, b \in ArtifactBodies :
        LET req == Request("main", "PUT /artifact", j, name, h, b)
        IN  IF verify_token(h) # 0 THEN Respond(req, verify_token(h), "") /\ Untouched
            ELSE IF ~b.present THEN Respond(req, 400, "") /\ Untouched
            ELSE /\ w_files' = SaveBinary(w_files, "out", j, name, b.data)
                 /\ Respond(req, 200, "{\"status\": \"ok\"}")
                 /\ UNCHANGED <<w_jobs, w_dispatches, w_pending>>
    /\ WorkerFrame

(* GET /healthz and GET / of api/index.py: verify_token is a dependency of *)
(* the application, so of both routes.                                     *)
Healthz ==
    /\ Serving("index")
    /\ \E h \in Headers :
        LET req == Request("index", "GET /healthz", 0, "", h, NoBody)
        IN  /\ IF verify_token(h) # 0 THEN Respond(req, verify_token(h), "")
               ELSE Respond(req, 200, "{\"status\": \"alive\"}")
            /\ Untouched
    /\ WorkerFrame

Root ==
    /\ Serving("index")
    /\ \E h \in Headers :
        LET req == Request("index", "GET /", 0, "", h, NoBody)
        IN  /\ IF verify_token(h) # 0 THEN Respond(req, verify_token(h), "")
               ELSE Respond(req, 200, "{\"ok\": true}")
            /\ Untouched
    /\ WorkerFrame

(* A request to a path neither application routes. *)
NotFound ==
    /\ Accepting
    /\ \E h \in Headers :
        /\ Respond(Request(w_app, "GET /nowhere", 0, "", h, NoBody), 404, "")
        /\ Untouched
    /\ WorkerFrame

InitWorker ==
    /\ ChunkingIdle
    /\ RetrievalIdle
    /\ NormalizerIdle
    /\ JudgeIdle
    /\ ClassifierIdle
    /\ w_pc = "ready"
    /\ w_app \in {"main", "index"}
    /\ w_token \in WorkerTokens
    /\ w_gh \in BOOLEAN
    /\ w_files = {}
    /\ w_jobs = 0
    /\ w_dispatches = <<>>
    /\ w_req = NoRequest
    /\ w_resp = NoResponse
    /\ w_count = 0
    /\ w_pending = {}

NextWorker ==
    \/ Health
    \/ PoCheck
    \/ PoCheckSave
    \/ PoCheckFinish
    \/ GetStatus
    \/ PutStatus
    \/ GetArtifact
    \/ PutArtifact
    \/ Healthz
    \/ Root
    \/ NotFound

SpecWorker == InitWorker /\ [][NextWorker]_vars

(* The response is a success. *)
Succeeded == w_resp.code \in 200..299

(* The request carries the configured token. *)
Authorized == w_token # "" /\ w_req.token.present /\ w_req.token.value = w_token

(* C18: no route of the worker answers with a success a request whose      *)
(* X-Worker-Token header is missing or differs from the configured         *)
(* WORKER_TOKEN.                                                           *)
C18_TokenOnAllRoutes == Succeeded => Authorized

(* The request carries the configured token. *)
HasToken(req) == w_token # "" /\ req.token.present /\ req.token.value = w_token

(* The files of one area of one job, as name and content. *)
AreaOf(files, area, job) ==
    {[name |-> f.name, data |-> f.data] : f \in {g \in files : g.area = area /\ g.job = job}}

(* The status record of a job: the set of its contents, empty when the job *)
(* has none.                                                               *)
StatusOf(files, job) == {f.data : f \in {g \in files : g.area = "status" /\ g.job = job}}

(* The inputs and the status record of a new job are stored. *)
JobStored(files, job) ==
    /\ AreaOf(files, "in", job) =
          {[name |-> "po", data |-> "PO"], [name |-> "pi", data |-> "PI"],
           [name |-> "commission", data |-> "COMMISSION"],
           [name |-> "toggles.json", data |-> TogglesJson]}
    /\ StatusOf(files, job) = {"{\"status\": \"received\"}"}

(* The step answers a request. *)
Answers == w_count' = w_count + 1

(* C24, one step: the step that answers a POST /po-check with the token    *)
(* answers 200 whatever becomes of the dispatch, and leaves the three      *)
(* inputs, toggles.json and the status record "received" of the job        *)
(* stored; they are stored when the dispatch request is sent, and no other *)
(* step sends one.  A status record "received" stays as it is unless the   *)
(* step answers a PUT /status of that job with 200.  A GET /status with    *)
(* the token answers "received" for a job whose record is that, and        *)
(* "unknown" for a job identifier without a record.                        *)
PoCheckStep ==
    /\ (Answers /\ w_req'.route = "POST /po-check" /\ HasToken(w_req')) =>
          /\ w_resp'.code = 200
          /\ \E p \in w_pending \ w_pending' :
                /\ JobStored(w_files', p.job)
                /\ Len(w_dispatches') = Len(w_dispatches) + 1 =>
                      /\ w_dispatches'[Len(w_dispatches')].job = p.job
                      /\ JobStored(w_dispatches'[Len(w_dispatches')].stored, p.job)
    /\ w_dispatches' # w_dispatches =>
          (Answers /\ w_req'.route = "POST /po-check" /\ HasToken(w_req'))
    /\ \A j \in 1..w_jobs :
          (StatusOf(w_files, j) = {"{\"status\": \"received\"}"} /\ StatusOf(w_files', j) # StatusOf(w_files, j)) =>
              (Answers /\ w_req'.route = "PUT /status" /\ w_req'.job = j /\ w_resp'.code = 200)
    /\ (Answers /\ w_req'.route = "GET /status" /\ HasToken(w_req')) =>
          /\ StatusOf(w_files, w_req'.job) = {"{\"status\": \"received\"}"} =>
                w_resp' = [code |-> 200, body |-> "{\"status\": \"received\"}"]
          /\ StatusOf(w_files, w_req'.job) = {} =>
                w_resp' = [code |-> 200, body |-> "{\"status\": \"unknown\"}"]

(* C24: in POST /po-check the three inputs, toggles.json and the status    *)
(* record {"status": "received"} of the new job are stored before the      *)
(* dispatch is attempted; a skipped or failed dispatch neither raises nor  *)
(* changes the record, so GET /status of the job returns "received" until  *)
(* a PUT /status of the job overwrites it; GET /status of a job identifier *)
(* without a status record returns "unknown".                              *)
C24_ReceivedUntilPut == [][PoCheckStep]_vars

(* The third request is a GET /status that returns "received" for a job    *)
(* whose dispatch failed.                                                  *)
C24_Witness ==
    /\ w_count = 3
    /\ w_req.route = "GET /status"
    /\ w_req.job = 1
    /\ w_resp = [code |-> 200, body |-> "{\"status\": \"received\"}"]
    /\ Len(w_dispatches) = 1
    /\ w_dispatches[1].job = 1
    /\ w_dispatches[1].outcome = "exception"

(* The routes of main.py that depend on verify_token. *)
ProtectedRoutes == {"POST /po-check", "GET /status", "PUT /status", "GET /artifact", "PUT /artifact"}

(* C25, one step: the step that answers a request to a protected route of  *)
(* main.py without the configured token answers 500 when WORKER_TOKEN is   *)
(* not configured and 401 otherwise, and the files, the jobs, the          *)
(* suspended po_check calls and the dispatches are what they were.         *)
RejectedStep ==
    (Answers /\ w_req'.app = "main" /\ w_req'.route \in ProtectedRoutes /\ ~HasToken(w_req')) =>
        /\ w_resp'.code = IF w_token = "" THEN 500 ELSE 401
        /\ w_files' = w_files
        /\ w_jobs' = w_jobs
        /\ w_pending' = w_pending
        /\ w_dispatches' = w_dispatches

(* C25: a request to a token-protected route of worker/main.py whose       *)
(* X-Worker-Token is missing or wrong is rejected with 401, or with 500    *)
(* when WORKER_TOKEN is not configured; it changes no stored input, status *)
(* record or artifact and triggers no dispatch.                            *)
C25_RejectedChangesNothing == [][RejectedStep]_vars

(* A PUT /status without the header is rejected with 401 after a job was   *)
(* received, and the job's record is still "received".                     *)
C25_Witness ==
    /\ w_token = "s3cret"
    /\ w_jobs = 1
    /\ w_req.route = "PUT /status"
    /\ w_req.job = 1
    /\ ~w_req.token.present
    /\ w_req.body.present
    /\ w_resp.code = 401
    /\ StatusOf(w_files, 1) = {"{\"status\": \"received\"}"}

(* The file of a name in an area of a job: the set of its contents. *)
FileOf(files, area, job, name) ==
    {f.data : f \in {g \in files : g.area = area /\ g.job = job /\ g.name = name}}

(* C26, one step: the step that answers a PUT /artifact changes no file    *)
(* but files of the output area of the job_id of the request; the step     *)
(* that answers a GET /artifact with the token returns the file of the     *)
(* output area when there is one, otherwise the file of that name of the   *)
(* input area, and 404 when there is neither.                              *)
ArtifactStep ==
    /\ (Answers /\ w_req'.route = "PUT /artifact") =>
          \A f \in (w_files' \ w_files) \cup (w_files \ w_files') :
              f.area = "out" /\ f.job = w_req'.job
    /\ (Answers /\ w_req'.route = "GET /artifact" /\ HasToken(w_req')) =>
          LET out == FileOf(w_files, "out", w_req'.job, w_req'.name)
              inp == FileOf(w_files, "in", w_req'.job, w_req'.name)
          IN  IF out # {} THEN w_resp'.code = 200 /\ w_resp'.body \in out
              ELSE IF inp # {} THEN w_resp'.code = 200 /\ w_resp'.body \in inp
              ELSE w_resp'.code = 404

(* C26: PUT /artifact/{job_id}/{filename} writes only under the output     *)
(* area of the job and changes neither the job's inputs nor its status     *)
(* record; GET /artifact returns the file of the output area when one      *)
(* exists, otherwise the input of that name, and 404 only when neither     *)
(* exists.                                                                 *)
C26_ArtifactsInOutputArea == [][ArtifactStep]_vars

-----------------------------------------------------------------------------
(* The judge: scripts/judge.py.  The results file is a JSON object, a       *)
(* dict of clause identifier to clause result; a clause result is a record *)
(* whose optional keys may be absent.  JSON null is written <<-1>>, a       *)
(* sequence no string is.                                                  *)

Null == <<-1>>

(* "ab", and the actual texts "cabd", "acb" and "AB". *)
ExpectedTexts == { <<>>, <<97, 98>> }
ActualTexts == { Null, <<99, 97, 98, 100>>, <<97, 99, 98>>, <<65, 66>> }

Statuses == {"PASS", "FAIL", "SKIP"}

(* A clause result with the keys status and fix, and the keys expected and *)
(* actual when opt has them.                                               *)
ClauseResult(status, expected, actual, opt) ==
    Restrict([status |-> status, fix |-> "none", expected |-> expected, actual |-> actual],
             {"status", "fix"} \cup opt)

(* clause_result.get('expected', '') *)
GetExpected(data) == IF "expected" \in DOMAIN data THEN data.expected ELSE <<>>

(* clause_result.get('actual', '') or '' *)
GetActual(data) ==
    IF "actual" \in DOMAIN data /\ data.actual # Null THEN data.actual ELSE <<>>

(* Mutant: the expected text is looked for at the start of the text only. *)
Occurs_atstart(e, a) == Len(e) <= Len(a) /\ SubSeq(a, 1, Len(e)) = e

(* "e in a" for strings: e is found at some position of a. *)
Occurs(e, a) == \E p \in 0..(Len(a) - Len(e)) : SubSeq(a, p + 1, p + Len(e)) = e

(* "if expected": the string is not empty. *)
Truthy(s) == s # <<>> /\ s # Null

(* The verdict of one clause: judge_status and judge_reason. *)
Verdict(data) ==
    LET status == data.status
        expected == GetExpected(data)
        actual == GetActual(data)
    IN  IF status = "PASS" /\ Truthy(expected) /\ ~Occurs(expected, actual)
        THEN [judge_status |-> "UNCERTAIN",
              judge_reason |-> "Expected text not found in actual text"]
        ELSE IF status = "FAIL" /\ Truthy(expected) /\ Occurs(expected, actual)
        THEN [judge_status |-> "CONFLICT",
              judge_reason |-> "Expected text found despite FAIL verdict"]
        ELSE [judge_status |-> status, judge_reason |-> ""]

(* The body of the loop: the copy of the clause result with judge_status,  *)
(* and with judge_reason "if judge_reason".                                *)
JudgeOne(data) ==
    IF Verdict(data).judge_reason # ""
    THEN Verdict(data) @@ data
    ELSE [judge_status |-> Verdict(data).judge_status] @@ data

RECURSIVE JudgeFrom(_, _, _)
JudgeFrom(results, i, judged) ==
    IF i > Len(results) THEN judged
    ELSE JudgeFrom(results, i + 1, DictSet(judged, results[i].key, JudgeOne(results[i].value)))

judge_clauses(results) == JudgeFrom(results, 1, <<>>)

(* The results files: up to MaxClauses clauses, the i-th with identifier i. *)
InitJudge ==
    /\ ChunkingIdle
    /\ RetrievalIdle
    /\ NormalizerIdle
    /\ WorkerIdle
    /\ ClassifierIdle
    /\ j_pc = "start"
    /\ \E k \in 0..MaxClauses :
        \E st \in [1..k -> Statuses], ex \in [1..k -> ExpectedTexts],
           ac \in [1..k -> ActualTexts], opt \in [1..k -> SUBSET {"expected", "actual"}] :
            j_results = [i \in 1..k |->
                            [key |-> i, value |-> ClauseResult(st[i], ex[i], ac[i], opt[i])]]
    /\ j_judged = <<>>
    /\ j_output = "absent"

(* judged = judge_clauses(results) *)
Judge ==
    /\ j_pc = "start"
    /\ j_judged' = judge_clauses(j_results)
    /\ j_pc' = "judged"
    /\ UNCHANGED <<j_results, j_output, cvars, rvars, nvars, wvars, kvars>>

(* json.dump(judged, f_out), and main returns. *)
SaveJudged ==
    /\ j_pc = "judged"
    /\ j_output' = j_judged
    /\ j_pc' = "done"
    /\ UNCHANGED <<j_results, j_judged, cvars, rvars, nvars, wvars, kvars>>

NextJudge ==
    \/ Judge
    \/ SaveJudged

SpecJudge == InitJudge /\ [][NextJudge]_vars

(* The text t is found in the text a: some stretch of a is t. *)
Contains(a, t) == \E i \in 1..(Len(a) + 1), j \in 0..Len(a) : SubSeq(a, i, j) = t

(* The expected and the actual text of a clause result; a text that is     *)
(* absent or null is the empty text.                                       *)
ExpectedOf(data) == IF "expected" \in DOMAIN data THEN data.expected ELSE <<>>
ActualOf(data) == IF "actual" \in DOMAIN data /\ data.actual # Null THEN data.actual ELSE <<>>

(* The judged result of the i-th clause of the results file. *)
JudgedOf(i) ==
    (CHOOSE e \in {j_output[n] : n \in 1..Len(j_output)} : e.key = j_results[i].key).value

C20_BothJudgeKeys ==
    j_pc = "done" =>
        \A i \in 1..Len(j_results) :
            /\ \E n \in 1..Len(j_output) : j_output[n].key = j_results[i].key
            /\ DOMAIN j_results[i].value \subseteq DOMAIN JudgedOf(i)
            /\ "judge_status" \in DOMAIN JudgedOf(i)
            /\ "judge_reason" \in DOMAIN JudgedOf(i)

-----------------------------------------------------------------------------
(* Classifier inference: classifier_infer.main, from the probabilities of  *)
(* clf.predict_proba on.                                                   *)

(* The probabilities and thresholds, in hundredths: the code compares      *)
(* them with >= and sorts by them, nothing else.                           *)
ProbValues == {40, 45, 50, 55, 60}

(* --threshold-high and --threshold-low: the defaults 0.55 and 0.45, and a *)
(* command line that gives a high threshold below the low one.             *)
Thresholds == {[high |-> 55, low |-> 45], [high |-> 45, low |-> 55]}

(* mlb.classes_.tolist() *)
clause_names == <<"incoterm", "payment">>

(* The idx-th child chunk of the --child-chunks file (idx from 1). *)
ChildChunk(idx) == [child_id |-> idx, text |-> <<96 + idx>>]

(* The list predictions[clause_names[c]] after the filling loop: one entry *)
(* per chunk, in the order of the chunks.                                  *)
PredictionsOf(probs, c) ==
    [idx \in 1..Len(probs) |->
        [child_id |-> ChildChunk(idx).child_id,
         text |-> ChildChunk(idx).text,
         probability |-> probs[idx][c]]]

(* predictions after the filling loop, the clauses in the order of         *)
(* clause_names.                                                           *)
FillPredictions(probs) ==
    [c \in 1..Len(clause_names) |->
        [key |-> clause_names[c], value |-> PredictionsOf(probs, c)]]

RECURSIVE InsertByProb(_, _)
InsertByProb(sorted, p) ==
    IF sorted = <<>> THEN <<p>>
    ELSE IF p.probability > Head(sorted).probability THEN <<p>> \o sorted
    ELSE <<Head(sorted)>> \o InsertByProb(Tail(sorted), p)

(* preds.sort(key=probability, reverse=True): stable, equal probabilities  *)
(* keep their order.                                                       *)
RECURSIVE SortByProb(_)
SortByProb(preds) ==
    IF preds = <<>> THEN <<>>
    ELSE InsertByProb(SortByProb(SubSeq(preds, 1, Len(preds) - 1)), preds[Len(preds)])

(* Mutant: a probability equal to the threshold is not selected. *)
MeetingThreshold_strict(preds, threshold) ==
    LET Meets(p) == p.probability > threshold
    IN  SelectSeq(preds, Meets)

(* [p for p in preds if p['probability'] >= threshold] *)
MeetingThreshold(preds, threshold) ==
    LET Meets(p) == p.probability >= threshold
    IN  SelectSeq(preds, Meets)

(* The body of the filtering loop for one clause: the sorted predictions   *)
(* that meet the high threshold, and "if not selected" those that meet the *)
(* low one.                                                                *)
FilterOne(preds, high, low) ==
    LET sorted == SortByProb(preds)
        selected == MeetingThreshold(sorted, high)
    IN  IF selected = <<>> THEN MeetingThreshold(sorted, low) ELSE selected

(* final after the filtering loop. *)
FilterPredictions(predictions, high, low) ==
    [n \in 1..Len(predictions) |->
        [key |-> predictions[n].key,
         value |-> FilterOne(predictions[n].value, high, low)]]

(* The probabilities of 1 to MaxChunks child chunks, one per clause, and   *)
(* the thresholds of the command line.                                     *)
InitClassify ==
    /\ ChunkingIdle
    /\ RetrievalIdle
    /\ NormalizerIdle
    /\ WorkerIdle
    /\ JudgeIdle
    /\ k_pc = "start"
    /\ \E k \in 1..MaxChunks :
        k_probs \in [1..k -> [1..Len(clause_names) -> ProbValues]]
    /\ \E t \in Thresholds :
        /\ k_high = t.high
        /\ k_low = t.low
    /\ k_predictions = <<>>
    /\ k_final = <<>>
    /\ k_output = "absent"

(* The filling loop. *)
Fill ==
    /\ k_pc = "start"
    /\ k_predictions' = FillPredictions(k_probs)
    /\ k_pc' = "filled"
    /\ UNCHANGED <<k_probs, k_high, k_low, k_final, k_output, cvars, rvars, nvars, wvars, jvars>>

(* The filtering loop; preds.sort sorts the lists of predictions in place. *)
Filter ==
    /\ k_pc = "filled"
    /\ k_predictions' = [n \in 1..Len(k_predictions) |->
                            [key |-> k_predictions[n].key,
                             value |-> SortByProb(k_predictions[n].value)]]
    /\ k_final' = FilterPredictions(k_predictions, k_high, k_low)
    /\ k_pc' = "filtered"
    /\ UNCHANGED <<k_probs, k_high, k_low, k_output, cvars, rvars, nvars, wvars, jvars>>

(* json.dump(final, f_out), and main returns. *)
WritePredictions ==
    /\ k_pc = "filtered"
    /\ k_output' = k_final
    /\ k_pc' = "done"
    /\ UNCHANGED <<k_probs, k_high, k_low, k_predictions, k_final, cvars, rvars, nvars, wvars, jvars>>

NextClassify ==
    \/ Fill
    \/ Filter
    \/ WritePredictions

SpecClassify == InitClassify /\ [][NextClassify]_vars

(* The chunks whose probability for the c-th clause is at least t. *)
ChunksMeeting(c, t) == {idx \in 1..Len(k_probs) : k_probs[idx][c] >= t}

(* The list the output has for the c-th clause. *)
OutputOf(c) ==
    (CHOOSE e \in {k_output[n] : n \in 1..Len(k_output)} : e.key = clause_names[c]).value

(* The list holds exactly the chunks of the set, each once, with its       *)
(* identifier, text and probability for the c-th clause.                   *)
HoldsExactly(list, chunks, c) ==
    /\ Len(list) = Cardinality(chunks)
    /\ {list[n].child_id : n \in 1..Len(list)} = chunks
    /\ \A n \in 1..Len(list) :
        list[n] = [child_id |-> list[n].child_id,
                   text |-> ChildChunk(list[n].child_id).text,
                   probability |-> k_probs[list[n].child_id][c]]

(* C21: the output has a list for every clause; when some chunk has a      *)
(* probability of at least threshold-high for the clause the list holds    *)
(* exactly those chunks, otherwise it holds exactly the chunks with a      *)
(* probability of at least threshold-low, and it is empty when there is    *)
(* none. The probabilities of the list never increase along it.            *)
C21_ThresholdsAndOrder ==
    k_pc = "done" =>
        \A c \in 1..Len(clause_names) :
            /\ \E n \in 1..Len(k_output) : k_output[n].key = clause_names[c]
            /\ IF ChunksMeeting(c, k_high) # {}
               THEN HoldsExactly(OutputOf(c), ChunksMeeting(c, k_high), c)
               ELSE /\ HoldsExactly(OutputOf(c), ChunksMeeting(c, k_low), c)
                    /\ ChunksMeeting(c, k_low) = {} => OutputOf(c) = <<>>
            /\ \A m, n \in 1..Len(OutputOf(c)) :
                m < n => OutputOf(c)[m].probability >= OutputOf(c)[n].probability

(* The first clause has two chunks at or above the high threshold, listed  *)
(* against the order of the chunks; the second has none at the high        *)
(* threshold and one at the low threshold.                                 *)
C21_Witness ==
    /\ k_pc = "done"
    /\ k_high = 55
    /\ k_low = 45
    /\ Len(k_probs) = 2
    /\ k_probs[1] = <<55, 45>>
    /\ k_probs[2] = <<60, 40>>
    /\ Len(OutputOf(1)) = 2
    /\ OutputOf(1)[1].child_id = 2
    /\ OutputOf(1)[2].child_id = 1
    /\ Len(OutputOf(2)) = 1
    /\ OutputOf(2)[1].child_id = 1

====
